---- MODULE Spec2Model ----
(***************************************************************************)
(* The ntsync crate: a userspace wrapper over the kernel's /dev/ntsync    *)
(* device.  The wrapper (src/src/event.rs, semaphore.rs, mutex.rs,        *)
(* wait.rs) issues one ioctl per call and translates the errno it gets.   *)
(* The device's side of every ioctl is the kernel driver's contract; it   *)
(* is modelled here by the Kernel_* operators, which the wrapper          *)
(* operators call.                                                        *)
(***************************************************************************)
EXTENDS Integers, Sequences, FiniteSets, TLC

VARIABLES objs, fdtab, waitq, issued, deleted, hist, depth

vars == <<objs, fdtab, waitq, issued, deleted, hist, depth>>

(***************************************************************************)
(* Bounds of the model.                                                    *)
(***************************************************************************)
\* u32 is modelled WordBits wide (TLC's integers are 32-bit signed).
WordBits == 2
\* file descriptors the process can hand out to ntsync objects: 1..MaxFd
MaxFd == 2
\* threads that may block in a wait: 1..MaxThreads
MaxThreads == 2
\* owner tokens used by callers: 1..MaxOwner (0 is "no owner")
MaxOwner == 2
\* longest source set handed to a wait
MaxSources == 2
\* recursion depth a mutex is driven to
MaxDepth == 2

U32_MAX == 2 ^ WordBits - 1
U32 == 0 .. U32_MAX
Fds == 1 .. MaxFd
Oids == 1 .. (MaxFd + 1)
Threads == 1 .. MaxThreads
Devs == {1, 2}
Kinds == {"Event", "Semaphore", "Mutex"}

(***************************************************************************)
(* errno values the wrapper matches on.                                    *)
(***************************************************************************)
EPERM == 1
EINTR == 4
EIO == 5
EBADF == 9
EINVAL == 22
\* an ioctl the object behind the descriptor does not implement
ENOTTY == 25
EOVERFLOW == 75
ETIMEDOUT == 110
EOWNERDEAD == 130

(***************************************************************************)
(* Result<T, Error>.  An Error is a kind and, for Unknown, the raw code.   *)
(***************************************************************************)
\* Ok of a struct, of a u32, of a bool and of ()
Ok(v) == [ok |-> TRUE, val |-> v]
OkU32(n) == [ok |-> TRUE, u32 |-> n]
OkBool(b) == [ok |-> TRUE, bool |-> b]
OkUnit == [ok |-> TRUE, unit |-> TRUE]
Err(e) == [ok |-> FALSE, err |-> e]
E(kind) == [kind |-> kind, code |-> 0]
Unknown(code) == [kind |-> "Unknown", code |-> code]
IsErr(r, kind) == (~r.ok) /\ r.err.kind = kind

\* Option<T>: <<>> is None, <<v>> is Some(v)
None == <<>>
Some(v) == <<v>>

\* u32::clamp
\* Variant: the value is passed on as it is.
Clamp_none(v, lo, hi) == v

Clamp(v, lo, hi) == IF v < lo THEN lo ELSE IF v > hi THEN hi ELSE v

Min(S) == CHOOSE m \in S : \A n \in S : m <= n

(***************************************************************************)
(* Kernel objects.  A file descriptor names an object; an object outlives *)
(* its descriptor while a waiter still references it.                     *)
(***************************************************************************)
Closed == [type |-> "closed"]
SemObj(dev, count, max) == [type |-> "sem", dev |-> dev, count |-> count, max |-> max]
MutexObj(dev, owner, count, ownerdead) ==
    [type |-> "mutex", dev |-> dev, owner |-> owner, count |-> count, ownerdead |-> ownerdead]
EventObj(dev, manual, signaled) ==
    [type |-> "event", dev |-> dev, manual |-> manual, signaled |-> signaled]

\* The kernel state an ioctl works on.
KState == [objs |-> objs, fdtab |-> fdtab, waitq |-> waitq]

\* Variant: the device of the object is not compared.
get_obj_any_dev(k, dev, fd) ==
    IF fd \in Fds /\ k.fdtab[fd] # 0 THEN k.fdtab[fd] ELSE 0

\* The object a descriptor names through device dev (get_obj), 0 if none.
get_obj(k, dev, fd) ==
    IF fd \in Fds /\ k.fdtab[fd] # 0 /\ k.objs[k.fdtab[fd]].dev = dev
    THEN k.fdtab[fd] ELSE 0

\* Objects referenced by a queued waiter.
Referenced(q) ==
    UNION {{q[i].oids[j] : j \in 1 .. Len(q[i].oids)} \cup {q[i].alert} : i \in 1 .. Len(q)}

\* Object slots that are neither named by a descriptor nor waited on are freed.
Release(k) ==
    [k EXCEPT !.objs = [o \in Oids |->
        IF (\E fd \in Fds : k.fdtab[fd] = o) \/ o \in Referenced(k.waitq)
        THEN k.objs[o] ELSE Closed]]

FreeFds(k) == {fd \in Fds : k.fdtab[fd] = 0}
FreeOids(k) == {o \in Oids : k.objs[o].type = "closed"}

(***************************************************************************)
(* Waiters.  A queue entry is one thread blocked in wait_any / wait_all.  *)
(***************************************************************************)
\* Variant: a mutex counts as free whoever owns it.
is_signaled_unowned(obj, owner) ==
    CASE obj.type = "sem" -> obj.count # 0
      [] obj.type = "mutex" -> obj.count < U32_MAX
      [] obj.type = "event" -> obj.signaled
      [] OTHER -> FALSE

is_signaled(obj, owner) ==
    CASE obj.type = "sem" -> obj.count # 0
      [] obj.type = "mutex" ->
            IF obj.owner # 0 /\ obj.owner # owner THEN FALSE ELSE obj.count < U32_MAX
      [] obj.type = "event" -> obj.signaled
      [] OTHER -> FALSE

\* Variant: an event stays signaled when a waiter takes it.
Acquire_keep(obj, owner) ==
    CASE obj.type = "sem" -> [obj EXCEPT !.count = obj.count - 1]
      [] obj.type = "mutex" ->
            [obj EXCEPT !.ownerdead = FALSE, !.count = obj.count + 1, !.owner = owner]
      [] OTHER -> obj

\* The state an object is left in when a waiter of `owner` acquires it.
Acquire(obj, owner) ==
    CASE obj.type = "sem" -> [obj EXCEPT !.count = obj.count - 1]
      [] obj.type = "mutex" ->
            [obj EXCEPT !.ownerdead = FALSE, !.count = obj.count + 1, !.owner = owner]
      [] obj.type = "event" ->
            IF obj.manual THEN obj ELSE [obj EXCEPT !.signaled = FALSE]
      [] OTHER -> obj

IsOwnerDead(obj) == obj.type = "mutex" /\ obj.ownerdead

\* Acquire the objects oids[i..] one after the other for waiter w.
RECURSIVE AcquireAll(_, _, _, _)
AcquireAll(os, oids, owner, i) ==
    IF i > Len(oids) THEN os
    ELSE AcquireAll([os EXCEPT ![oids[i]] = Acquire(os[oids[i]], owner)], oids, owner, i + 1)

\* Variant: a waiter whose first object is available takes that one alone.
try_wake_all_first(k, n) ==
    LET w == k.waitq[n]
        can_wake == Len(w.oids) > 0 /\ is_signaled(k.objs[w.oids[1]], w.owner)
    IN  IF w.all /\ w.signaled = -1 /\ can_wake
        THEN [k EXCEPT
                !.objs[w.oids[1]] = Acquire(k.objs[w.oids[1]], w.owner),
                !.waitq[n] = [w EXCEPT !.signaled = 0]]
        ELSE k

\* try_wake_all: waiter n of the queue takes all its objects or none.
try_wake_all(k, n) ==
    LET w == k.waitq[n]
        can_wake == \A j \in 1 .. Len(w.oids) : is_signaled(k.objs[w.oids[j]], w.owner)
    IN  IF w.all /\ w.signaled = -1 /\ can_wake
        THEN [k EXCEPT
                !.objs = AcquireAll(k.objs, w.oids, w.owner, 1),
                !.waitq[n] = [w EXCEPT
                    !.signaled = 0,
                    !.ownerdead = \E j \in 1 .. Len(w.oids) : IsOwnerDead(k.objs[w.oids[j]])]]
        ELSE k

\* try_wake_all_obj: every wait_all waiter queued on object o, in queue order.
RECURSIVE try_wake_all_obj(_, _, _)
try_wake_all_obj(k, o, n) ==
    IF n > Len(k.waitq) THEN k
    ELSE LET w == k.waitq[n]
             on == w.all /\ \E j \in 1 .. Len(w.oids) : w.oids[j] = o
         IN  try_wake_all_obj(IF on THEN try_wake_all(k, n) ELSE k, o, n + 1)

\* Variant: a waiter is not queued on its alert.
AnyIndex_sources(w, o) ==
    LET hits == {j \in 1 .. Len(w.oids) : w.oids[j] = o}
    IN  IF (~w.all) /\ hits # {} THEN Min(hits) - 1 ELSE -1

\* The index under which waiter w sits in o's any_waiters list, -1 if it does not.
AnyIndex(w, o) ==
    LET hits == {j \in 1 .. Len(w.oids) : w.oids[j] = o}
    IN  IF (~w.all) /\ hits # {} THEN Min(hits) - 1
        ELSE IF w.alert = o THEN Len(w.oids)
        ELSE -1

\* try_wake_any_sem / try_wake_any_mutex / try_wake_any_event on object o.
RECURSIVE try_wake_any_obj(_, _, _)
try_wake_any_obj(k, o, n) ==
    IF n > Len(k.waitq) THEN k
    ELSE LET w == k.waitq[n]
             obj == k.objs[o]
             idx == AnyIndex(w, o)
             stop == CASE obj.type = "sem" -> obj.count = 0
                       [] obj.type = "mutex" -> obj.count = U32_MAX
                       [] obj.type = "event" -> ~obj.signaled
                       [] OTHER -> TRUE
             skip == \/ idx = -1
                     \/ w.signaled # -1
                     \/ obj.type = "mutex" /\ obj.owner # 0 /\ obj.owner # w.owner
         IN  IF stop THEN k
             ELSE IF skip THEN try_wake_any_obj(k, o, n + 1)
             ELSE try_wake_any_obj(
                    [k EXCEPT
                        !.objs[o] = Acquire(obj, w.owner),
                        !.waitq[n] = [w EXCEPT
                            !.signaled = idx,
                            !.ownerdead = w.ownerdead \/ IsOwnerDead(obj)]],
                    o, n + 1)

\* What a state-changing ioctl does once the object's state is updated.
Wake(k, o) == try_wake_any_obj(try_wake_all_obj(k, o, 1), o, 1)

(***************************************************************************)
(* The device's ioctls.  Each returns the errno (0 on success), the value *)
(* written back to the caller and the kernel state it leaves.             *)
(***************************************************************************)
KRet(errno, out, k) == [errno |-> errno, out |-> out, k |-> k]

B2U(b) == IF b THEN 1 ELSE 0

\* A new object on the lowest free descriptor.
Install(k, obj) ==
    LET fd == Min(FreeFds(k))
        o == Min(FreeOids(k))
    IN  KRet(0, fd, [k EXCEPT !.objs[o] = obj, !.fdtab[fd] = o])

\* NTSYNC_IOC_CREATE_SEM
Kernel_create_sem(k, dev, args) ==
    IF args.count > args.max THEN KRet(EINVAL, 0, k)
    ELSE Install(k, SemObj(dev, args.count, args.max))

\* NTSYNC_IOC_SEM_RELEASE
Kernel_sem_release(k, fd, amount) ==
    IF k.fdtab[fd] = 0 THEN KRet(EBADF, amount, k)
    ELSE LET o == k.fdtab[fd]
             sem == k.objs[o]
         IN  IF sem.type # "sem" THEN KRet(ENOTTY, amount, k)
             ELSE LET sum == (sem.count + amount) % (U32_MAX + 1)
                  IN  IF sum < sem.count \/ sum > sem.max
                      THEN KRet(EOVERFLOW, amount, k)
                      ELSE KRet(0, sem.count,
                                Wake([k EXCEPT !.objs[o].count = sum], o))

\* NTSYNC_IOC_SEM_READ
Kernel_sem_read(k, fd, args) ==
    IF k.fdtab[fd] = 0 THEN KRet(EBADF, args, k)
    ELSE LET sem == k.objs[k.fdtab[fd]]
         IN  IF sem.type # "sem" THEN KRet(ENOTTY, args, k)
             ELSE KRet(0, [count |-> sem.count, max |-> sem.max], k)

\* NTSYNC_IOC_CREATE_MUTEX
Kernel_create_mutex(k, dev, args) ==
    IF (args.owner = 0) # (args.count = 0) THEN KRet(EINVAL, 0, k)
    ELSE Install(k, MutexObj(dev, args.owner, args.count, FALSE))

\* NTSYNC_IOC_MUTEX_UNLOCK
Kernel_mutex_unlock(k, fd, args) ==
    IF k.fdtab[fd] = 0 THEN KRet(EBADF, args, k)
    ELSE LET o == k.fdtab[fd]
             mutex == k.objs[o]
         IN  IF mutex.type # "mutex" THEN KRet(ENOTTY, args, k)
             ELSE IF args.owner = 0 THEN KRet(EINVAL, args, k)
             ELSE IF mutex.owner # args.owner THEN KRet(EPERM, args, k)
             ELSE LET count == mutex.count - 1
                      unlocked == [mutex EXCEPT
                                     !.count = count,
                                     !.owner = IF count = 0 THEN 0 ELSE mutex.owner]
                  IN  KRet(0, [args EXCEPT !.count = mutex.count],
                           Wake([k EXCEPT !.objs[o] = unlocked], o))

\* NTSYNC_IOC_MUTEX_KILL
Kernel_mutex_kill(k, fd, owner) ==
    IF k.fdtab[fd] = 0 THEN KRet(EBADF, 0, k)
    ELSE LET o == k.fdtab[fd]
             mutex == k.objs[o]
         IN  IF mutex.type # "mutex" THEN KRet(ENOTTY, 0, k)
             ELSE IF owner = 0 THEN KRet(EINVAL, 0, k)
             ELSE IF mutex.owner # owner THEN KRet(EPERM, 0, k)
             ELSE KRet(0, 0,
                       Wake([k EXCEPT !.objs[o] =
                                [mutex EXCEPT !.ownerdead = TRUE, !.owner = 0, !.count = 0]],
                            o))

\* NTSYNC_IOC_MUTEX_READ
Kernel_mutex_read(k, fd, args) ==
    IF k.fdtab[fd] = 0 THEN KRet(EBADF, args, k)
    ELSE LET mutex == k.objs[k.fdtab[fd]]
         IN  IF mutex.type # "mutex" THEN KRet(ENOTTY, args, k)
             ELSE KRet(IF mutex.ownerdead THEN EOWNERDEAD ELSE 0,
                       [owner |-> mutex.owner, count |-> mutex.count], k)

\* NTSYNC_IOC_CREATE_EVENT
Kernel_create_event(k, dev, args) ==
    Install(k, EventObj(dev, args.manual # 0, args.signaled # 0))

\* NTSYNC_IOC_EVENT_SET, NTSYNC_IOC_EVENT_PULSE
Kernel_event_set(k, fd, state, pulse) ==
    IF k.fdtab[fd] = 0 THEN KRet(EBADF, state, k)
    ELSE LET o == k.fdtab[fd]
             event == k.objs[o]
         IN  IF event.type # "event" THEN KRet(ENOTTY, state, k)
             ELSE LET woken == Wake([k EXCEPT !.objs[o].signaled = TRUE], o)
                  IN  KRet(0, B2U(event.signaled),
                           IF pulse THEN [woken EXCEPT !.objs[o].signaled = FALSE]
                           ELSE woken)

\* NTSYNC_IOC_EVENT_RESET
Kernel_event_reset(k, fd, state) ==
    IF k.fdtab[fd] = 0 THEN KRet(EBADF, state, k)
    ELSE LET o == k.fdtab[fd]
             event == k.objs[o]
         IN  IF event.type # "event" THEN KRet(ENOTTY, state, k)
             ELSE KRet(0, B2U(event.signaled), [k EXCEPT !.objs[o].signaled = FALSE])

\* NTSYNC_IOC_EVENT_READ
Kernel_event_read(k, fd, args) ==
    IF k.fdtab[fd] = 0 THEN KRet(EBADF, args, k)
    ELSE LET event == k.objs[k.fdtab[fd]]
         IN  IF event.type # "event" THEN KRet(ENOTTY, args, k)
             ELSE KRet(0, [manual |-> B2U(event.manual), signaled |-> B2U(event.signaled)], k)

\* close(2) on an object's descriptor
Kernel_close(k, fd) ==
    IF k.fdtab[fd] = 0 THEN KRet(EBADF, 0, k)
    ELSE KRet(0, 0, Release([k EXCEPT !.fdtab[fd] = 0]))

(***************************************************************************)
(* The wrapper.  Each call returns its Result and the kernel state left.  *)
(***************************************************************************)
Ret(res, k) == [res |-> res, k |-> k]

Handle(kind, fd) == [kind |-> kind, id |-> fd]

(*--------------------------- semaphore.rs -------------------------------*)
\* Variant: a semaphore created empty.
SemaphoreStatus_new_empty(max) == [count |-> 0, max |-> max]

\* #[derive(new)] with #[new(value = "max")] on count
SemaphoreStatus_new(max) == [count |-> max, max |-> max]
SemaphoreStatus_default == [count |-> 0, max |-> 0]

\* Variant: EOVERFLOW is not told apart.
release_errno_plain(errno) == Unknown(errno)

release_errno(errno) ==
    IF errno = EOVERFLOW THEN E("SemaphoreOverflow")
    ELSE IF errno = EBADF THEN E("AlreadyClosed")
    ELSE Unknown(errno)

Semaphore_release(k, h, amount) ==
    LET r == Kernel_sem_release(k, h.id, amount)
    IN  Ret(IF r.errno = 0 THEN OkU32(r.out) ELSE Err(release_errno(r.errno)), r.k)

close_errno(errno, closed) ==
    IF errno = EBADF THEN E(closed)
    ELSE IF errno = EINTR THEN E("Interrupt")
    ELSE IF errno = EIO THEN E("IOError")
    ELSE Unknown(errno)

Semaphore_delete(k, h) ==
    LET r == Kernel_close(k, h.id)
    IN  Ret(IF r.errno = 0 THEN OkUnit ELSE Err(close_errno(r.errno, "AlreadyClosed")), r.k)

Semaphore_read(k, h) ==
    LET r == Kernel_sem_read(k, h.id, SemaphoreStatus_default)
    IN  Ret(IF r.errno = 0 THEN Ok(r.out)
            ELSE IF r.errno = EBADF THEN Err(E("AlreadyClosed"))
            ELSE Err(Unknown(r.errno)), r.k)

create_errno(errno) ==
    IF errno = EINVAL THEN E("InvalidValue") ELSE Unknown(errno)

new_semaphore(k, dev, maximum) ==
    LET args == SemaphoreStatus_new(Clamp(maximum, 1, U32_MAX))
        r == Kernel_create_sem(k, dev, args)
    IN  Ret(IF r.errno = 0 THEN Ok(Handle("Semaphore", r.out))
            ELSE Err(create_errno(r.errno)), r.k)

(*----------------------------- mutex.rs ---------------------------------*)
\* Variant: the owner given is dropped.
MutexStatus_new_unowned(owner) == [owner |-> 0, count |-> 0]

\* #[derive(new)] with #[new(value = "0")] on count
MutexStatus_new(owner) == [owner |-> owner, count |-> 0]
MutexStatus_default == [owner |-> 0, count |-> 0]
MutexStatus_owner(st) == IF st.owner = 0 THEN None ELSE Some(st.owner)
\* Variant: the count is reported whether or not the mutex is held.
MutexStatus_depth_raw(st) == Some(st.count)

MutexStatus_depth(st) == IF st.count # 0 THEN Some(st.count) ELSE None

\* Variant: EPERM is not told apart.
mutex_errno_plain(errno) ==
    IF errno = EINVAL THEN E("InvalidValue") ELSE Unknown(errno)

mutex_errno(errno) ==
    IF errno = EINVAL THEN E("InvalidValue")
    ELSE IF errno = EPERM THEN E("PermissionDenied")
    ELSE Unknown(errno)

\* Variant: unlock gives the mutex up whatever its depth.
Mutex_unlock_all(k, h, owner) ==
    LET r == Kernel_mutex_kill(k, h.id, owner)
    IN  Ret(IF r.errno = 0 THEN OkUnit ELSE Err(mutex_errno(r.errno)), r.k)

Mutex_unlock(k, h, owner) ==
    LET r == Kernel_mutex_unlock(k, h.id, MutexStatus_new(owner))
    IN  Ret(IF r.errno = 0 THEN OkUnit ELSE Err(mutex_errno(r.errno)), r.k)

Mutex_read(k, h) ==
    LET r == Kernel_mutex_read(k, h.id, MutexStatus_default)
    IN  Ret(IF r.errno = 0 THEN Ok(r.out)
            ELSE IF r.errno = EOWNERDEAD THEN Err(E("OwnerDead"))
            ELSE Err(Unknown(r.errno)), r.k)

\* Variant: kill gives up one level of the mutex, as unlock does.
Mutex_kill_once(k, h, owner) == Mutex_unlock(k, h, owner)

Mutex_kill(k, h, owner) ==
    LET r == Kernel_mutex_kill(k, h.id, owner)
    IN  Ret(IF r.errno = 0 THEN OkUnit ELSE Err(mutex_errno(r.errno)), r.k)

Mutex_delete(k, h) ==
    LET r == Kernel_close(k, h.id)
    IN  Ret(IF r.errno = 0 THEN OkUnit ELSE Err(close_errno(r.errno, "DoubleClose")), r.k)

new_mutex(k, dev) ==
    LET r == Kernel_create_mutex(k, dev, MutexStatus_default)
    IN  Ret(IF r.errno = 0 THEN Ok(Handle("Mutex", r.out))
            ELSE Err(create_errno(r.errno)), r.k)

(*----------------------------- event.rs ---------------------------------*)
\* #[derive(new)]: the parameters are the fields in declaration order
EventStatus_new(manual, signaled) == [manual |-> manual, signaled |-> signaled]
EventStatus_default == [manual |-> 0, signaled |-> 0]
EventStatus_manual_reset(st) == st.manual = 1
\* Variant: the getter reads the other field.
EventStatus_signaled_manual(st) == st.manual = 1

EventStatus_signaled(st) == st.signaled = 1

event_errno(errno) ==
    IF errno = EINVAL THEN E("InvalidValue")
    ELSE IF errno = EPERM THEN E("PermissionDenied")
    ELSE IF errno = EOVERFLOW THEN E("SemaphoreOverflow")
    ELSE IF errno = EINTR THEN E("Interrupt")
    ELSE IF errno = EOWNERDEAD THEN E("OwnerDead")
    ELSE IF errno = ETIMEDOUT THEN E("Timeout")
    ELSE Unknown(errno)

Event_signal(k, h) ==
    LET r == Kernel_event_set(k, h.id, 0, FALSE)
    IN  Ret(IF r.errno = 0 THEN OkBool(r.out # 0) ELSE Err(event_errno(r.errno)), r.k)

\* Variant: reset issues the set request.
Event_reset_set(k, h) == Event_signal(k, h)

Event_reset(k, h) ==
    LET r == Kernel_event_reset(k, h.id, 0)
    IN  Ret(IF r.errno = 0 THEN OkBool(r.out # 0) ELSE Err(event_errno(r.errno)), r.k)

\* Variant: pulse issues the set request only.
Event_pulse_set(k, h) == Event_signal(k, h)

Event_pulse(k, h) ==
    LET r == Kernel_event_set(k, h.id, 0, TRUE)
    IN  Ret(IF r.errno = 0 THEN OkBool(r.out # 0) ELSE Err(event_errno(r.errno)), r.k)

Event_status(k, h) ==
    LET r == Kernel_event_read(k, h.id, EventStatus_default)
    IN  Ret(IF r.errno = 0 THEN Ok(r.out) ELSE Err(event_errno(r.errno)), r.k)

new_event(k, dev, signaled, manual) ==
    LET args == EventStatus_new(B2U(signaled), B2U(manual))
        r == Kernel_create_event(k, dev, args)
    IN  Ret(IF r.errno = 0 THEN Ok(Handle("Event", r.out))
            ELSE Err(event_errno(r.errno)), r.k)

\* NTSyncObjects::delete for Event (the trait and its Event impl are not in src/)
Event_delete(k, h) ==
    LET r == Kernel_close(k, h.id)
    IN  Ret(IF r.errno = 0 THEN OkUnit ELSE Err(close_errno(r.errno, "AlreadyClosed")), r.k)

(***************************************************************************)
(* wait_any / wait_all: the device's side.                                 *)
(***************************************************************************)
U64_MAX == 2 ^ (2 * WordBits) - 1

\* setup_wait: the objects of the request, or <<>> with EINVAL.
setup_wait(k, dev, args, all) ==
    LET fds == IF args.alert # 0 THEN Append(args.objs, args.alert) ELSE args.objs
        os == [i \in 1 .. Len(fds) |-> get_obj(k, dev, fds[i])]
        bad == \/ args.pad # 0
               \/ args.flags \notin {0, 1}
               \/ \E i \in 1 .. Len(os) : os[i] = 0
               \/ all /\ \E i, j \in 1 .. Len(os) : i < j /\ os[i] = os[j]
    IN  IF bad THEN [errno |-> EINVAL, oids |-> <<>>, alert |-> 0]
        ELSE [errno |-> 0,
              oids |-> SubSeq(os, 1, args.count),
              alert |-> IF args.alert # 0 THEN os[Len(os)] ELSE 0]

\* wait_any's "check if we are already signaled", object by object.
RECURSIVE check_any(_, _, _)
check_any(k, n, i) ==
    LET w == k.waitq[n]
        total == IF w.alert # 0 THEN Append(w.oids, w.alert) ELSE w.oids
    IN  IF i > Len(total) \/ w.signaled # -1 THEN k
        ELSE check_any(try_wake_any_obj(k, total[i], 1), n, i + 1)

\* Variant: the alert is examined before the objects.
check_all_alert_first(k, n) ==
    LET w == k.waitq[n]
        a == IF w.alert # 0 THEN try_wake_any_obj(k, w.alert, 1) ELSE k
    IN  IF a.waitq[n].signaled = -1 THEN try_wake_all(a, n) ELSE a

\* wait_all's check: all the objects first, the alert only after them.
check_all(k, n) ==
    LET a == try_wake_all(k, n)
        w == a.waitq[n]
    IN  IF w.alert # 0 /\ w.signaled = -1 THEN try_wake_any_obj(a, w.alert, 1) ELSE a

\* NTSYNC_IOC_WAIT_ANY / NTSYNC_IOC_WAIT_ALL up to the point where the caller
\* sleeps: the request is queued and the objects are examined once.
Kernel_wait(k, dev, args, all, call) ==
    LET s == setup_wait(k, dev, args, all)
    IN  IF s.errno # 0 THEN KRet(s.errno, 0, k)
        ELSE LET entry == [t |-> call.t, all |-> all, oids |-> s.oids, alert |-> s.alert,
                           owner |-> args.owner, finite |-> args.timeout # U64_MAX,
                           signaled |-> -1, ownerdead |-> FALSE,
                           sources |-> call.sources]
                 queued == [k EXCEPT !.waitq = Append(k.waitq, entry)]
                 n == Len(queued.waitq)
             IN  KRet(0, 0, IF all THEN check_all(queued, n) ELSE check_any(queued, n, 1))

\* The queue entry of thread t.
EntryOf(q, t) == q[CHOOSE n \in 1 .. Len(q) : q[n].t = t]
Waiting(q) == {q[n].t : n \in 1 .. Len(q)}

\* The caller leaves the ioctl: its entry is unqueued.
Unqueue(k, t) ==
    LET keep == SelectSeq(k.waitq, LAMBDA w : w.t # t)
    IN  Release([k EXCEPT !.waitq = keep])

\* What the ioctl returns for entry w: errno and the index written back.
wait_ret(w) ==
    IF w.signaled # -1
    THEN [errno |-> IF w.ownerdead THEN EOWNERDEAD ELSE 0, index |-> w.signaled]
    ELSE [errno |-> ETIMEDOUT, index |-> 0]

(*------------------------------ wait.rs ---------------------------------*)
\* Variant: the flag bits and the owner change places.
WaitArgs_new_swapped(timeout, ids, count, index, flags, owner, alert) ==
    [timeout |-> timeout, objs |-> ids, count |-> count, index |-> index,
     flags |-> owner, owner |-> flags, alert |-> alert, pad |-> 0]

WaitArgs_new(timeout, ids, count, index, flags, owner, alert) ==
    [timeout |-> timeout, objs |-> ids, count |-> count, index |-> index,
     flags |-> flags, owner |-> owner, alert |-> alert, pad |-> 0]

\* Variant: no timeout is sent as a timeout that has passed.
WireTimeout_none_zero(timeout) ==
    IF timeout = None THEN 0
    ELSE IF timeout[1] < 0 THEN U64_MAX
    ELSE timeout[1]

\* Option<SystemTime> to the timeout field; a SystemTime is its distance in
\* seconds from UNIX_EPOCH (negative: before it).
WireTimeout(timeout) ==
    IF timeout = None THEN U64_MAX
    ELSE IF timeout[1] < 0 THEN U64_MAX
    ELSE timeout[1]

unwrap_or_default(owner) == IF owner = None THEN 0 ELSE owner[1]

\* Variant: only the events are examined.
check_sources_events(sources, owner, alertid, i) ==
    IF \E j \in i .. Len(sources) :
          sources[j].kind = "Event" /\ alertid # 0 /\ alertid = sources[j].id
    THEN "DuplicateEvent" ELSE ""

\* The loop over the sources: "" if every source passes, else the error of
\* the first source (in iteration order) that does not.
RECURSIVE check_sources(_, _, _, _)
check_sources(sources, owner, alertid, i) ==
    IF i > Len(sources) THEN ""
    ELSE LET source == sources[i]
         IN  IF source.kind = "Event" /\ alertid # 0 /\ alertid = source.id
             THEN "DuplicateEvent"
             ELSE IF source.kind = "Mutex" /\ (owner = None \/ owner[1] = 0)
             THEN "InvalidValue"
             ELSE check_sources(sources, owner, alertid, i + 1)

\* Variant: ETIMEDOUT is not told apart.
wait_errno_plain(errno) ==
    IF errno = EINVAL THEN E("InvalidValue") ELSE Unknown(errno)

\* Variant: EOWNERDEAD is not told apart.
wait_errno_alive(errno) ==
    IF errno = EINVAL THEN E("InvalidValue")
    ELSE IF errno = EPERM THEN E("PermissionDenied")
    ELSE IF errno = EOVERFLOW THEN E("SemaphoreOverflow")
    ELSE IF errno = EINTR THEN E("Interrupt")
    ELSE IF errno = ETIMEDOUT THEN E("Timeout")
    ELSE Unknown(errno)

wait_errno(errno) ==
    IF errno = EINVAL THEN E("InvalidValue")
    ELSE IF errno = EPERM THEN E("PermissionDenied")
    ELSE IF errno = EOVERFLOW THEN E("SemaphoreOverflow")
    ELSE IF errno = EINTR THEN E("Interrupt")
    ELSE IF errno = EOWNERDEAD THEN E("OwnerDead")
    ELSE IF errno = ETIMEDOUT THEN E("Timeout")
    ELSE Unknown(errno)

\* Variant: the alert is never reported.
WaitAllStatus_quiet(index, count, return_sources) ==
    [alerted |-> FALSE, objects |-> return_sources]

\* The status built from what the ioctl left in args.
WaitAllStatus(index, count, return_sources) ==
    [alerted |-> index = count, objects |-> return_sources]
\* Variant: the alert is never reported.
WaitAnyStatus_quiet(index, count, return_sources) ==
    [alerted |-> FALSE, objects |-> return_sources,
     index |-> IF index = count THEN 0 ELSE count]

WaitAnyStatus(index, count, return_sources) ==
    [alerted |-> index = count, objects |-> return_sources,
     index |-> IF index = count THEN 0 ELSE count]

\* Variant: the sources are returned in the opposite order.
wait_result_reversed(w) ==
    LET r == wait_ret(w)
        count == Len(w.sources)
        back == [i \in 1 .. count |-> w.sources[count + 1 - i]]
    IN  IF r.errno # 0 THEN Err(wait_errno(r.errno))
        ELSE IF w.all THEN Ok(WaitAllStatus(r.index, count, back))
        ELSE Ok(WaitAnyStatus(r.index, count, back))

\* The match on the ioctl's return, for the entry w the kernel hands back.
wait_result(w) ==
    LET r == wait_ret(w)
        count == Len(w.sources)
    IN  IF r.errno # 0 THEN Err(wait_errno(r.errno))
        ELSE IF w.all THEN Ok(WaitAllStatus(r.index, count, w.sources))
        ELSE Ok(WaitAnyStatus(r.index, count, w.sources))

\* The request handed to the ioctl: the ids pushed by the loop over the
\* sources and the caller's other parameters.
wait_args(call) ==
    LET alertid == IF call.alert = None THEN 0 ELSE call.alert[1].id
        ids == [i \in 1 .. Len(call.sources) |-> call.sources[i].id]
    IN  WaitArgs_new(WireTimeout(call.timeout), ids, Len(ids), 0, call.flags,
                     unwrap_or_default(call.owner), alertid)

Pending == [ok |-> FALSE, err |-> E("<blocked>")]

\* A call of wait_all (all) or wait_any up to its return or to the point
\* where the calling thread sleeps (Pending).  call.sources is the source
\* set in the order the HashSet yields it.
wait_call(k, all, call) ==
    LET alertid == IF call.alert = None THEN 0 ELSE call.alert[1].id
        failed == check_sources(call.sources, call.owner, alertid, 1)
        args == wait_args(call)
        r == Kernel_wait(k, call.dev, args, all, call)
    IN  IF failed # "" THEN Ret(Err(E(failed)), k)
        ELSE IF r.errno # 0 THEN Ret(Err(wait_errno(r.errno)), k)
        ELSE LET w == EntryOf(r.k.waitq, call.t)
             IN  IF w.signaled # -1 THEN Ret(wait_result(w), Unqueue(r.k, call.t))
                 ELSE Ret(Pending, r.k)

wait_all(k, call) == wait_call(k, TRUE, call)
wait_any(k, call) == wait_call(k, FALSE, call)

(***************************************************************************)
(* The state machine.  hist holds the last `depth` calls with their       *)
(* results; issued the handle values the program holds; deleted those     *)
(* whose delete() returned Ok and that were not handed out again.         *)
(***************************************************************************)
last == hist[Len(hist)]

Push(rec) ==
    LET h == Append(hist, rec)
    IN  hist' = IF Len(h) > depth THEN SubSeq(h, Len(h) - depth + 1, Len(h)) ELSE h

\* The kernel state after a call.
Commit(k) ==
    /\ objs' = k.objs
    /\ fdtab' = k.fdtab
    /\ waitq' = k.waitq

InitWith(d) ==
    /\ objs = [o \in Oids |-> Closed]
    /\ fdtab = [fd \in Fds |-> 0]
    /\ waitq = <<>>
    /\ issued = {}
    /\ deleted = {}
    /\ hist = <<[op |-> "init"]>>
    /\ depth = d

Init == InitWith(1)

CanCreate == FreeFds(KState) # {} /\ FreeOids(KState) # {}

\* A constructor returned r: the handle is held from now on.
Created(op, dev, args, r) ==
    /\ Commit(r.k)
    /\ issued' = IF r.res.ok THEN issued \cup {r.res.val} ELSE issued
    /\ deleted' = IF r.res.ok THEN deleted \ {r.res.val} ELSE deleted
    /\ Push([op |-> op, dev |-> dev, args |-> args, res |-> r.res])
    /\ UNCHANGED depth

\* A call on handle h returned r.
Called(op, h, arg, r) ==
    /\ Commit(r.k)
    /\ Push([op |-> op, h |-> h, arg |-> arg, res |-> r.res])
    /\ UNCHANGED <<issued, deleted, depth>>

\* delete() on handle h returned r.
Deleted(op, h, r) ==
    /\ Commit(r.k)
    /\ deleted' = IF r.res.ok THEN deleted \cup {h} ELSE deleted
    /\ Push([op |-> op, h |-> h, arg |-> 0, res |-> r.res])
    /\ UNCHANGED <<issued, depth>>

Held(kind) == {h \in issued : h.kind = kind}

NewSemaphore(dev, maximum) ==
    /\ CanCreate
    /\ Created("new_semaphore", dev, [maximum |-> maximum], new_semaphore(KState, dev, maximum))

NewMutex(dev) ==
    /\ CanCreate
    /\ Created("new_mutex", dev, [nothing |-> TRUE], new_mutex(KState, dev))

NewEvent(dev, signaled, manual) ==
    /\ CanCreate
    /\ Created("new_event", dev, [signaled |-> signaled, manual |-> manual],
               new_event(KState, dev, signaled, manual))

SemRelease(h, amount) == Called("release", h, amount, Semaphore_release(KState, h, amount))
SemRead(h) == Called("sem_read", h, 0, Semaphore_read(KState, h))
SemDelete(h) == Deleted("sem_delete", h, Semaphore_delete(KState, h))

MutexUnlock(h, owner) == Called("unlock", h, owner, Mutex_unlock(KState, h, owner))
MutexKill(h, owner) == Called("kill", h, owner, Mutex_kill(KState, h, owner))
MutexRead(h) == Called("mutex_read", h, 0, Mutex_read(KState, h))
MutexDelete(h) == Deleted("mutex_delete", h, Mutex_delete(KState, h))

EventSignal(h) == Called("signal", h, 0, Event_signal(KState, h))
EventReset(h) == Called("reset", h, 0, Event_reset(KState, h))
EventPulse(h) == Called("pulse", h, 0, Event_pulse(KState, h))
EventStatus(h) == Called("status", h, 0, Event_status(KState, h))
EventDelete(h) == Deleted("event_delete", h, Event_delete(KState, h))

(*------------------------------- waits ----------------------------------*)
Range(f) == {f[i] : i \in DOMAIN f}

\* The orders in which a HashSet of at most n of the handles S can be iterated.
RECURSIVE Orders(_, _)
Orders(S, n) ==
    IF n = 0 THEN {<<>>}
    ELSE LET P == Orders(S, n - 1)
         IN  P \cup {Append(p, x) : p \in {q \in P : Len(q) = n - 1}, x \in S}

SourceOrders == {p \in Orders(issued, MaxSources) : \A i, j \in 1 .. Len(p) : i # j => p[i] # p[j]}
AlertInputs == {None} \cup {Some(h) : h \in Held("Event")}
OwnerInputs == {None} \cup {Some(o) : o \in 0 .. MaxOwner}
TimeoutInputs == {None, Some(-1), Some(1)}
FlagInputs == {0, 1}

Call(op, t, dev, sources, timeout, owner, flags, alert) ==
    [op |-> op, t |-> t, dev |-> dev, sources |-> sources, timeout |-> timeout,
     owner |-> owner, flags |-> flags, alert |-> alert]

\* No mutex of the request is driven past MaxDepth.
DepthOk(call) ==
    \A i \in 1 .. Len(call.sources) :
        LET o == fdtab[call.sources[i].id]
        IN  (o # 0 /\ objs[o].type = "mutex") => objs[o].count < MaxDepth

\* Thread t's call of op returned r, or went to sleep (Pending); woken tells a
\* return after sleeping from the call itself, whose arguments are recorded.
Waited(op, t, woken, call, r) ==
    /\ Commit(r.k)
    /\ Push([op |-> op, t |-> t, woken |-> woken, call |-> call, res |-> r.res])
    /\ UNCHANGED <<issued, deleted, depth>>

WaitAll(call) ==
    /\ call.t \notin Waiting(waitq)
    /\ DepthOk(call)
    /\ Waited("wait_all", call.t, FALSE, call, wait_all(KState, call))

WaitAny(call) ==
    /\ call.t \notin Waiting(waitq)
    /\ DepthOk(call)
    /\ Waited("wait_any", call.t, FALSE, call, wait_any(KState, call))

WaitOp(w) == IF w.all THEN "wait_all" ELSE "wait_any"

\* A sleeping caller that was signaled runs again and returns.
WaitReturn(t) ==
    /\ t \in Waiting(waitq)
    /\ LET w == EntryOf(waitq, t)
       IN  /\ w.signaled # -1
           /\ Waited(WaitOp(w), t, TRUE, [t |-> t], Ret(wait_result(w), Unqueue(KState, t)))

\* The timeout of a sleeping caller passes before it was signaled.
WaitTimeout(t) ==
    /\ t \in Waiting(waitq)
    /\ LET w == EntryOf(waitq, t)
       IN  /\ w.signaled = -1
           /\ w.finite
           /\ Waited(WaitOp(w), t, TRUE, [t |-> t], Ret(wait_result(w), Unqueue(KState, t)))

\* The thread that issues the next wait: threads are interchangeable.
NextThread == Min(Threads \ Waiting(waitq))

WaitCalls(op, devs, timeouts, owners, flagset, alerts) ==
    {Call(op, NextThread, dev, sources, timeout, owner, flags, alert) :
        dev \in devs, sources \in SourceOrders, timeout \in timeouts,
        owner \in owners, flags \in flagset, alert \in alerts}

\* Fewer than n callers are asleep.
CanWait(n) == Len(waitq) < n

EventOps ==
    \/ \E h \in Held("Event") : EventSignal(h)
    \/ \E h \in Held("Event") : EventReset(h)
    \/ \E h \in Held("Event") : EventPulse(h)
    \/ \E h \in Held("Event") : EventStatus(h)

SemOps ==
    \/ \E h \in Held("Semaphore"), amount \in U32 : SemRelease(h, amount)
    \/ \E h \in Held("Semaphore") : SemRead(h)

MutexOps ==
    \/ \E h \in Held("Mutex"), owner \in 0 .. MaxOwner : MutexUnlock(h, owner)
    \/ \E h \in Held("Mutex"), owner \in 0 .. MaxOwner : MutexKill(h, owner)
    \/ \E h \in Held("Mutex") : MutexRead(h)

DeleteOps ==
    \/ \E h \in Held("Semaphore") : SemDelete(h)
    \/ \E h \in Held("Mutex") : MutexDelete(h)
    \/ \E h \in Held("Event") : EventDelete(h)

Wakeups ==
    \/ \E t \in Threads : WaitReturn(t)
    \/ \E t \in Threads : WaitTimeout(t)

(*--------------------------- events and waits ---------------------------*)
NextEvent ==
    \/ \E signaled \in BOOLEAN, manual \in BOOLEAN : NewEvent(1, signaled, manual)
    \/ EventOps
    \/ (CanWait(1) /\ \E call \in WaitCalls("wait_all", {1}, TimeoutInputs, {None}, FlagInputs, AlertInputs) :
            WaitAll(call))
    \/ (CanWait(1) /\ \E call \in WaitCalls("wait_any", {1}, TimeoutInputs, {None}, FlagInputs, AlertInputs) :
            WaitAny(call))
    \/ Wakeups

SpecEvent == Init /\ [][NextEvent]_vars

(*------------------------- semaphores and waits -------------------------*)
NextSem ==
    \/ \E maximum \in U32 : NewSemaphore(1, maximum)
    \/ SemOps
    \/ (CanWait(1) /\ \E call \in WaitCalls("wait_all", {1}, TimeoutInputs, {None}, FlagInputs, {None}) :
            WaitAll(call))
    \/ (CanWait(1) /\ \E call \in WaitCalls("wait_any", {1}, TimeoutInputs, {None}, FlagInputs, {None}) :
            WaitAny(call))
    \/ Wakeups

SpecSem == Init /\ [][NextSem]_vars

(*-------------------------- mutexes and waits ---------------------------*)
NextMutex ==
    \/ NewMutex(1)
    \/ MutexOps
    \/ (CanWait(1) /\ \E call \in WaitCalls("wait_all", {1}, TimeoutInputs, OwnerInputs, FlagInputs, {None}) :
            WaitAll(call))
    \/ (CanWait(1) /\ \E call \in WaitCalls("wait_any", {1}, TimeoutInputs, OwnerInputs, FlagInputs, {None}) :
            WaitAny(call))
    \/ Wakeups

SpecMutex == Init /\ [][NextMutex]_vars

\* A sleeping caller runs again once it is signaled or its timeout has passed.
SpecMutexFair ==
    SpecMutex /\ \A t \in Threads : WF_vars(WaitReturn(t) \/ WaitTimeout(t))

(*------------- one connection, every kind of object, waits --------------*)
Next ==
    \/ NewSemaphore(1, 1)
    \/ NewMutex(1)
    \/ \E signaled \in BOOLEAN, manual \in BOOLEAN : NewEvent(1, signaled, manual)
    \/ \E h \in Held("Event") : EventSignal(h)
    \/ \E h \in Held("Mutex"), owner \in 1 .. MaxOwner : MutexUnlock(h, owner)
    \/ (CanWait(1) /\ \E call \in WaitCalls("wait_all", {1}, {None, Some(1)}, OwnerInputs, {0}, AlertInputs) :
            WaitAll(call))
    \/ (CanWait(1) /\ \E call \in WaitCalls("wait_any", {1}, {None, Some(1)}, OwnerInputs, {0}, AlertInputs) :
            WaitAny(call))
    \/ Wakeups

Spec == Init /\ [][Next]_vars

\* A sleeping caller runs again once it is signaled or its timeout has passed.
SpecFair ==
    Spec /\ \A t \in Threads : WF_vars(WaitReturn(t) \/ WaitTimeout(t))

(*--------------------------- two connections ----------------------------*)
NextConn ==
    \/ \E dev \in Devs : NewSemaphore(dev, 1)
    \/ \E dev \in Devs : NewMutex(dev)
    \/ \E dev \in Devs : NewEvent(dev, TRUE, FALSE)
    \/ \E h \in Held("Event") : EventSignal(h)
    \/ \E h \in Held("Event") : EventReset(h)
    \/ (CanWait(1) /\ \E call \in WaitCalls("wait_all", Devs, {None, Some(1)}, {Some(1)}, {0}, AlertInputs) :
            WaitAll(call))
    \/ (CanWait(1) /\ \E call \in WaitCalls("wait_any", Devs, {None, Some(1)}, {Some(1)}, {0}, AlertInputs) :
            WaitAny(call))
    \/ Wakeups

SpecConn == Init /\ [][NextConn]_vars

(*------------------- handles created, used and deleted ------------------*)
NextLife ==
    \/ \E maximum \in U32 : NewSemaphore(1, maximum)
    \/ NewMutex(1)
    \/ \E signaled \in BOOLEAN, manual \in BOOLEAN : NewEvent(1, signaled, manual)
    \/ SemOps
    \/ MutexOps
    \/ EventOps
    \/ DeleteOps

SpecLife == Init /\ [][NextLife]_vars

(*---------------- a semaphore's first calls, remembered -----------------*)
NextSemFresh ==
    \/ \E maximum \in U32 : NewSemaphore(1, maximum)
    \/ SemOps

SpecSemFresh == InitWith(3) /\ [][NextSemFresh]_vars

(*------------------ semaphores, two callers may sleep -------------------*)
NextSem2 ==
    \/ \E maximum \in 0 .. 2 : NewSemaphore(1, maximum)
    \/ \E h \in Held("Semaphore"), amount \in 0 .. 2 : SemRelease(h, amount)
    \/ \E h \in Held("Semaphore") : SemRead(h)
    \/ (CanWait(2) /\ \E call \in WaitCalls("wait_all", {1}, {None, Some(1)}, {None}, {0}, {None}) :
            WaitAll(call))
    \/ (CanWait(2) /\ \E call \in WaitCalls("wait_any", {1}, {None, Some(1)}, {None}, {0}, {None}) :
            WaitAny(call))
    \/ Wakeups

SpecSem2 == Init /\ [][NextSem2]_vars

(*-------------------- events, two callers may sleep ---------------------*)
NextEvent2 ==
    \/ \E signaled \in BOOLEAN, manual \in BOOLEAN : NewEvent(1, signaled, manual)
    \/ EventOps
    \/ (CanWait(2) /\ \E call \in WaitCalls("wait_all", {1}, {None, Some(1)}, {None}, {0}, {None}) :
            WaitAll(call))
    \/ (CanWait(2) /\ \E call \in WaitCalls("wait_any", {1}, {None, Some(1)}, {None}, {0}, {None}) :
            WaitAny(call))
    \/ Wakeups

SpecEvent2 == Init /\ [][NextEvent2]_vars

(*------------------- one mutex, two callers may sleep -------------------*)
\* One owner more than MaxOwner, so that two sleepers and the holder differ.
MutexOwners == 1 .. MaxOwner + 1

NextMutex2 ==
    \/ (issued = {} /\ NewMutex(1))
    \/ \E h \in Held("Mutex"), owner \in MutexOwners : MutexUnlock(h, owner)
    \/ \E h \in Held("Mutex"), owner \in MutexOwners : MutexKill(h, owner)
    \/ (CanWait(2) /\ \E call \in WaitCalls("wait_all", {1}, {None, Some(1)},
                                             {Some(o) : o \in MutexOwners}, {0}, {None}) :
            WaitAll(call))
    \/ (CanWait(2) /\ \E call \in WaitCalls("wait_any", {1}, {None, Some(1)},
                                             {Some(o) : o \in MutexOwners}, {0}, {None}) :
            WaitAny(call))
    \/ Wakeups

SpecMutex2 == Init /\ [][NextMutex2]_vars

(*------------ one mutex, two callers may sleep in wait_all --------------*)
NextMutexAll ==
    \/ (issued = {} /\ NewMutex(1))
    \/ \E h \in Held("Mutex"), owner \in MutexOwners : MutexUnlock(h, owner)
    \/ (CanWait(2) /\ \E call \in WaitCalls("wait_all", {1}, {None, Some(1)},
                                             {Some(o) : o \in MutexOwners}, {0}, {None}) :
            WaitAll(call))
    \/ Wakeups

\* A sleeping caller runs again once it is signaled or its timeout has passed.
SpecMutexAllFair ==
    Init /\ [][NextMutexAll]_vars /\ \A t \in Threads : WF_vars(WaitReturn(t) \/ WaitTimeout(t))

(***************************************************************************)
(* Properties.                                                             *)
(***************************************************************************)
\* The kernel object a handle's descriptor names now, 0 if none.
ObjOf(h) == fdtab[h.id]
IsLive(h, type) == ObjOf(h) # 0 /\ objs[ObjOf(h)].type = type

WokenBy(r) ==
    {n \in 1 .. Len(waitq) : waitq[n].signaled = -1 /\ r.k.waitq[n].signaled # -1}

\* C10 as stated: release(amount) on a semaphore with counter c and maximum m
\* either (c + amount <= m) succeeds, returns c and leaves the counter at
\* c + amount, or fails with SemaphoreOverflow and leaves the counter at c.
C10_AsStated ==
    \A h \in Held("Semaphore"), amount \in U32 :
        IsLive(h, "sem") =>
            LET o == ObjOf(h)
                c == objs[o].count
                m == objs[o].max
                r == Semaphore_release(KState, h, amount)
            IN  IF c + amount <= m
                THEN r.res.ok /\ r.res.u32 = c /\ r.k.objs[o].count = c + amount
                ELSE IsErr(r.res, "SemaphoreOverflow") /\ r.k.objs[o].count = c

\* C10: release(amount) on a semaphore with counter c and maximum m either
\* (c + amount <= m, without wrap-around) succeeds, returns c and leaves the
\* counter at c + amount less one for every sleeping waiter the release
\* satisfies, or fails with SemaphoreOverflow and leaves the counter at c.
C10_ReleaseCountsWaiters ==
    \A h \in Held("Semaphore"), amount \in U32 :
        IsLive(h, "sem") =>
            LET o == ObjOf(h)
                c == objs[o].count
                m == objs[o].max
                r == Semaphore_release(KState, h, amount)
            IN  IF c + amount <= m
                THEN /\ r.res.ok
                     /\ r.res.u32 = c
                     /\ r.k.objs[o].count = c + amount - Cardinality(WokenBy(r))
                ELSE IsErr(r.res, "SemaphoreOverflow") /\ r.k = KState

\* release() returned Ok and a sleeping waiter of the semaphore was woken by it.
C10_Witness ==
    /\ last.op = "release"
    /\ last.res.ok
    /\ last.arg > 0
    /\ \E n \in 1 .. Len(waitq) :
          /\ waitq[n].signaled # -1
          /\ ObjOf(last.h) \in Range(waitq[n].oids)
          /\ objs[ObjOf(last.h)].count = last.res.u32 + last.arg - 1

\* C1 as stated: for a freshly created semaphore with maximum M, release(a)
\* directly followed by release(b): the second call succeeds iff a + b <= M,
\* otherwise it fails with SemaphoreOverflow and read() shows the counter as
\* the first call left it.
C1_AsStated ==
    (/\ Len(hist) = 3
     /\ hist[1].op = "new_semaphore" /\ hist[1].res.ok
     /\ hist[2].op = "release" /\ hist[2].h = hist[1].res.val
     /\ hist[3].op = "release" /\ hist[3].h = hist[1].res.val) =>
        LET M == IF hist[1].args.maximum < 1 THEN 1 ELSE hist[1].args.maximum
            a == hist[2].arg
            b == hist[3].arg
            first == IF hist[2].res.ok THEN hist[2].res.u32 + a ELSE M
            r == Semaphore_read(KState, hist[3].h).res
        IN  /\ hist[3].res.ok <=> a + b <= M
            /\ ~hist[3].res.ok =>
                  /\ IsErr(hist[3].res, "SemaphoreOverflow")
                  /\ r.ok /\ r.val.count = first

NonWaitOps ==
    {"release", "sem_read", "sem_delete", "unlock", "kill", "mutex_read", "mutex_delete",
     "signal", "reset", "pulse", "status", "event_delete"}

\* C2 as stated: after delete() succeeded on a handle, every later non-wait
\* operation on a copy of that handle value fails with AlreadyClosed.
C2_AsStated ==
    [][(last'.op \in NonWaitOps /\ last'.h \in deleted) =>
            IsErr(last'.res, "AlreadyClosed")]_vars

\* A mutex nobody owns and nobody has abandoned.
Unowned(o) ==
    objs[o].type = "mutex" /\ objs[o].owner = 0 /\ objs[o].count = 0 /\ ~objs[o].ownerdead

\* In kernel state k, wait_all on mutex h alone succeeds for every owner of bs.
AcquirableBy(k, h, bs) ==
    \A b \in bs :
        wait_all(k, Call("wait_all", NextThread, 1, <<h>>, None, Some(b), 0, None)).res.ok

\* C3 as stated: unlock(owner) on a never-acquired mutex fails with
\* PermissionDenied for every OwnerId value, and the mutex stays unowned so
\* that a following wait_all with a non-zero owner succeeds.
C3_AsStated ==
    \A h \in Held("Mutex"), owner \in 0 .. MaxOwner :
        (IsLive(h, "mutex") /\ Unowned(ObjOf(h))) =>
            LET r == Mutex_unlock(KState, h, owner)
            IN  /\ IsErr(r.res, "PermissionDenied")
                /\ r.k = KState
                /\ AcquirableBy(r.k, h, 1 .. MaxOwner)

\* C3: unlock(owner) on a never-acquired mutex fails with PermissionDenied for
\* every non-zero OwnerId and with InvalidValue for OwnerId(0); either way the
\* mutex stays unowned and a following wait_all with a non-zero owner succeeds.
C3_UnlockUnowned ==
    \A h \in Held("Mutex"), owner \in 0 .. MaxOwner :
        (IsLive(h, "mutex") /\ Unowned(ObjOf(h))) =>
            LET r == Mutex_unlock(KState, h, owner)
            IN  /\ IsErr(r.res, IF owner = 0 THEN "InvalidValue" ELSE "PermissionDenied")
                /\ r.k = KState
                /\ AcquirableBy(r.k, h, 1 .. MaxOwner)

\* unlock(non-zero owner) was refused on a mutex that is still unowned.
C3_Witness ==
    /\ last.op = "unlock"
    /\ last.arg # 0
    /\ IsErr(last.res, "PermissionDenied")
    /\ IsLive(last.h, "mutex")
    /\ Unowned(ObjOf(last.h))
    /\ AcquirableBy(KState, last.h, 1 .. MaxOwner)

\* The wait requests a caller can make next, and what each returns.
Requests(devs, owners) ==
    WaitCalls("wait_all", devs, {None, Some(1)}, owners, {0}, AlertInputs)
        \cup WaitCalls("wait_any", devs, {None, Some(1)}, owners, {0}, AlertInputs)
Run(call) == IF call.op = "wait_all" THEN wait_all(KState, call) ELSE wait_any(KState, call)

AlertIsMember(call) ==
    call.alert # None /\ \E i \in 1 .. Len(call.sources) : call.sources[i] = call.alert[1]
MutexWithoutOwner(call) ==
    /\ \E i \in 1 .. Len(call.sources) : call.sources[i].kind = "Mutex"
    /\ (call.owner = None \/ call.owner = Some(0))
\* The alert is a member that the iteration reaches before any mutex.
AlertReachedFirst(call) ==
    /\ call.alert # None
    /\ \E i \in 1 .. Len(call.sources) :
          /\ call.sources[i] = call.alert[1]
          /\ \A j \in 1 .. i - 1 : call.sources[j].kind # "Mutex"

\* C4 as stated: a wait whose alert Event is also a member of the source set
\* fails with DuplicateEvent before any request reaches the kernel.
C4_AsStated ==
    \A call \in Requests({1}, OwnerInputs) :
        AlertIsMember(call) =>
            IsErr(Run(call).res, "DuplicateEvent") /\ Run(call).k = KState

Foreign(h, dev) == ObjOf(h) # 0 /\ objs[ObjOf(h)].dev # dev
Passes(call) ==
    check_sources(call.sources, call.owner,
                  IF call.alert = None THEN 0 ELSE call.alert[1].id, 1) = ""

\* C6: a wait issued through one connection whose (validly composed) source
\* set contains a handle of an object created on another connection fails with
\* InvalidValue; it neither succeeds nor blocks nor changes any object.
C6_ForeignHandleRefused ==
    \A call \in Requests(Devs, {Some(1)}) :
        (Passes(call) /\ \E i \in 1 .. Len(call.sources) : Foreign(call.sources[i], call.dev)) =>
            IsErr(Run(call).res, "InvalidValue") /\ Run(call).k = KState

\* A wait on one signaled object of each connection returned InvalidValue.
C6_Witness ==
    /\ last.op \in {"wait_all", "wait_any"}
    /\ ~last.woken
    /\ IsErr(last.res, "InvalidValue")
    /\ \E i, j \in 1 .. Len(last.call.sources) :
          /\ Foreign(last.call.sources[i], last.call.dev)
          /\ ~Foreign(last.call.sources[j], last.call.dev)
          /\ is_signaled(objs[ObjOf(last.call.sources[i])], 1)
          /\ is_signaled(objs[ObjOf(last.call.sources[j])], 1)

\* Entry w waits for a mutex that another owner holds.
HeldByOther(w) ==
    \E j \in 1 .. Len(w.oids) :
        LET m == objs[w.oids[j]]
        IN  m.type = "mutex" /\ m.owner # 0 /\ m.owner # w.owner

\* Thread t sleeps in a wait_all with a finite timeout on a mutex held by another owner.
BlockedOnHeld(t) ==
    /\ t \in Waiting(waitq)
    /\ LET w == EntryOf(waitq, t) IN w.all /\ w.finite /\ HeldByOther(w)

TookObj(w, o) ==
    IF w.all THEN o \in Range(w.oids)
    ELSE w.signaled >= 0 /\ w.signaled < Len(w.oids) /\ w.oids[w.signaled + 1] = o

\* The callers that sleep before and after this step and that the step satisfies with o.
WokenOn(o) ==
    {t \in Waiting(waitq) \cap Waiting(waitq') :
        /\ EntryOf(waitq, t).signaled = -1
        /\ EntryOf(waitq', t).signaled # -1
        /\ TookObj(EntryOf(waitq', t), o)}

\* The step is a wait call that came back without sleeping.
Immediate == last'.op \in {"wait_all", "wait_any"} /\ ~last'.woken
SourceObjs(call) == {ObjOf(call.sources[i]) : i \in 1 .. Len(call.sources)}

\* How one step moves the counter of semaphore o.
SemStep(o) ==
    LET c == objs[o].count
        d == objs'[o].count
        rel == IF last'.op = "release" /\ last'.res.ok /\ ObjOf(last'.h) = o
               THEN last'.arg ELSE 0
    IN  IF Immediate
        THEN IF ~last'.res.ok THEN d = c
             ELSE IF last'.op = "wait_all"
             THEN IF o \in SourceObjs(last'.call) THEN c > 0 /\ d = c - 1 ELSE d = c
             ELSE /\ d \in {c, c - 1}
                  /\ d = c - 1 => (c > 0 /\ o \in SourceObjs(last'.call))
                  /\ Cardinality({x \in Oids : objs[x].type = "sem"
                                      /\ objs'[x].count = objs[x].count - 1}) = 1
        ELSE d = c + rel - Cardinality(WokenOn(o))

\* C11: for every semaphore, under any interleaving of new_semaphore, release
\* and waits by several threads, 0 <= count <= max and max >= 1 (also as read()
\* reports them), and every waiter satisfied on the semaphore lowers count by
\* exactly 1, never below 0.
C11_SemaphoreCounts ==
    /\ [](\A o \in Oids : objs[o].type = "sem" =>
            0 <= objs[o].count /\ objs[o].count <= objs[o].max /\ objs[o].max >= 1)
    /\ [](\A h \in Held("Semaphore") :
            LET r == Semaphore_read(KState, h).res
            IN  r.ok /\ 0 <= r.val.count /\ r.val.count <= r.val.max /\ r.val.max >= 1)
    /\ [][\A o \in Oids : (objs[o].type = "sem" /\ objs'[o].type = "sem") => SemStep(o)]_vars

\* Two callers sleep on a semaphore; one release satisfied both and the counter is 0 again.
C11_Witness ==
    /\ last.op = "release"
    /\ last.res.ok
    /\ last.arg = 2
    /\ Len(waitq) = 2
    /\ \A n \in 1 .. 2 : waitq[n].signaled # -1 /\ ObjOf(last.h) \in Range(waitq[n].oids)
    /\ objs[ObjOf(last.h)].count = 0

\* A mutex that was killed and not acquired since.
Abandoned(o) == objs[o].type = "mutex" /\ objs[o].ownerdead

\* C12: for every mutex, after any interleaving of new_mutex, waits, unlock
\* and kill, depth > 0 exactly when owner # 0; the state that read() hands back
\* has owner() Some exactly when depth() is Some, and a new mutex reads back
\* with owner 0 and depth 0.  (read() hands back no state, Err(OwnerDead),
\* while the mutex is abandoned.)
C12_OwnerIffDepth ==
    /\ \A o \in Oids : objs[o].type = "mutex" => (objs[o].count > 0 <=> objs[o].owner # 0)
    /\ \A h \in Held("Mutex") :
          IsLive(h, "mutex") =>
            LET r == Mutex_read(KState, h).res
            IN  IF Abandoned(ObjOf(h)) THEN IsErr(r, "OwnerDead")
                ELSE /\ r.ok
                     /\ r.val.owner = objs[ObjOf(h)].owner
                     /\ r.val.count = objs[ObjOf(h)].count
                     /\ (MutexStatus_owner(r.val) # None <=> MutexStatus_depth(r.val) # None)
                     /\ (r.val.count > 0 <=> r.val.owner # 0)
    /\ (last.op = "new_mutex" /\ last.res.ok) =>
          LET r == Mutex_read(KState, last.res.val).res
          IN  r.ok /\ r.val = MutexStatus_default
                   /\ MutexStatus_owner(r.val) = None /\ MutexStatus_depth(r.val) = None

\* A mutex acquired twice by one owner was read: owner() and depth() are both Some.
C12_Witness ==
    /\ last.op = "mutex_read"
    /\ last.res.ok
    /\ MutexStatus_owner(last.res.val) # None
    /\ MutexStatus_depth(last.res.val) = Some(2)

\* The mutex handles whose mutex is held (owner # 0).
HeldMutexes == {h \in Held("Mutex") : IsLive(h, "mutex") /\ objs[ObjOf(h)].owner # 0}

\* After call r the mutex o belongs to a sleeping caller that r has woken, at depth 1.
TakenOver(r, o) ==
    /\ r.k.objs[o].count = 1
    /\ \E n \in WokenBy(r) : TookObj(r.k.waitq[n], o) /\ r.k.objs[o].owner = r.k.waitq[n].owner

RECURSIVE UnlockN(_, _, _, _)
UnlockN(k, h, owner, n) ==
    IF n = 0 THEN k ELSE UnlockN(Mutex_unlock(k, h, owner).k, h, owner, n - 1)

\* A wait on mutex h alone, without timeout, by owner b, in kernel state k.
MutexWait(k, op, h, b) ==
    wait_call(k, op = "wait_all", Call(op, NextThread, 1, <<h>>, None, Some(b), 0, None))

\* A wait that returns r has acquired its objects: Ok, or Err(OwnerDead) when
\* one of the mutexes it took had been abandoned.
Acquired(r) == r.ok \/ IsErr(r, "OwnerDead")

\* What one step does to the depth of a mutex that is held before the step.
DepthStep(o) ==
    LET m == objs[o]
        n == objs'[o]
        again == {t \in WokenOn(o) : EntryOf(waitq', t).owner = m.owner}
    IN  m.owner # 0 =>
          \/ n = m
          \/ /\ n = [m EXCEPT !.count = m.count + 1]
             /\ \/ Immediate /\ Acquired(last'.res) /\ last'.call.owner = Some(m.owner)
                             /\ o \in SourceObjs(last'.call)
                \/ Cardinality(again) = 1
          \/ /\ last'.op = "unlock" /\ last'.res.ok /\ last'.arg = m.owner /\ ObjOf(last'.h) = o
             /\ IF m.count > 1 THEN n = [m EXCEPT !.count = m.count - 1]
                ELSE n.count \in {0, 1} /\ (n.count = 0 <=> n.owner = 0)
          \/ /\ last'.op = "kill" /\ last'.res.ok /\ ObjOf(last'.h) = o
             /\ n.count \in {0, 1} /\ (n.count = 0 <=> n.owner = 0)

\* C14: a wait on a mutex that owner A holds (below the largest depth), issued
\* again with owner A, returns Ok without sleeping and raises the depth by 1;
\* the depth of a held mutex moves only by +1 per acquiring wait of its owner
\* and -1 per successful unlock (so after n waits it is n), and with depth d a
\* wait by another owner B sleeps after each of the first d - 1 unlock(A), all
\* of which succeed, and finds the mutex released by A only after the d-th.
C14_Recursion ==
    /\ [](\A h \in HeldMutexes :
            LET o == ObjOf(h)
                A == objs[o].owner
                d == objs[o].count
            IN  /\ d < U32_MAX =>
                     \A op \in {"wait_all", "wait_any"} :
                        LET r == MutexWait(KState, op, h, A)
                        IN  r.res.ok /\ r.k = [KState EXCEPT !.objs[o].count = d + 1]
                /\ \A j \in 0 .. d - 1 :
                     LET k == UnlockN(KState, h, A, j)
                     IN  /\ k.objs[o].owner = A /\ k.objs[o].count = d - j
                         /\ Mutex_unlock(k, h, A).res = OkUnit
                         /\ \A B \in (1 .. MaxOwner) \ {A}, op \in {"wait_all", "wait_any"} :
                               MutexWait(k, op, h, B).res = Pending
                /\ LET k == UnlockN(KState, h, A, d)
                   IN  /\ k.objs[o].owner # A
                       /\ k.objs[o].owner = 0 =>
                            \A B \in (1 .. MaxOwner) \ {A}, op \in {"wait_all", "wait_any"} :
                               LET r == MutexWait(k, op, h, B)
                               IN  Acquired(r.res)
                                   /\ r.k.objs[o].owner = B /\ r.k.objs[o].count = 1)
    /\ [][\A o \in Oids : (objs[o].type = "mutex" /\ objs'[o].type = "mutex") => DepthStep(o)]_vars

\* The holder of a mutex waited on it again and got it at once: depth 2.
C14_Witness ==
    /\ last.op \in {"wait_all", "wait_any"}
    /\ ~last.woken
    /\ last.res.ok
    /\ Len(last.call.sources) = 1
    /\ IsLive(last.call.sources[1], "mutex")
    /\ objs[ObjOf(last.call.sources[1])].owner = last.call.owner[1]
    /\ objs[ObjOf(last.call.sources[1])].count = 2

TookAbandoned(w) ==
    \E x \in Oids :
        /\ objs[x].type = "mutex"
        /\ TookObj(w, x)
        /\ objs[x].ownerdead \/ (last'.op = "kill" /\ last'.res.ok /\ ObjOf(last'.h) = x)

\* C16: a mutex is abandoned only by a successful kill, and is then unowned;
\* the next wait_all / wait_any that acquires it, at once or after sleeping,
\* reports Err(OwnerDead) and leaves it owned by the waiter's owner at depth 1
\* and no longer abandoned, so that acquiring waits after it return Ok until
\* another kill; Mutex::read reports OwnerDead exactly while it is abandoned.
C16_OwnerDeadOnce ==
    /\ [](\A h \in Held("Mutex"), B \in 1 .. MaxOwner, op \in {"wait_all", "wait_any"} :
            IsLive(h, "mutex") =>
              LET o == ObjOf(h)
                  m == objs[o]
                  r == MutexWait(KState, op, h, B)
              IN  /\ Abandoned(o) =>
                       /\ m.owner = 0 /\ m.count = 0
                       /\ IsErr(r.res, "OwnerDead")
                       /\ r.k.objs[o] = [m EXCEPT !.owner = B, !.count = 1, !.ownerdead = FALSE]
                       /\ MutexWait(r.k, op, h, B).res.ok
                  /\ (~Abandoned(o) /\ m.owner \in {0, B} /\ m.count < U32_MAX) =>
                       r.res.ok /\ r.k.objs[o].owner = B /\ ~r.k.objs[o].ownerdead
                  /\ IsErr(Mutex_read(KState, h).res, "OwnerDead") <=> Abandoned(o))
    /\ [][/\ \A o \in Oids :
               (objs[o].type = "mutex" /\ ~objs[o].ownerdead /\ objs'[o].type = "mutex" /\ objs'[o].ownerdead) =>
                   last'.op = "kill" /\ last'.res.ok /\ ObjOf(last'.h) = o /\ objs[o].owner = last'.arg
          /\ \A t \in Waiting(waitq) \cap Waiting(waitq') :
               (EntryOf(waitq, t).signaled = -1 /\ EntryOf(waitq', t).signaled # -1) =>
                   (EntryOf(waitq', t).ownerdead <=> TookAbandoned(EntryOf(waitq', t)))
          /\ \A t \in Waiting(waitq) \ Waiting(waitq') :
               EntryOf(waitq, t).signaled # -1 =>
                   /\ last'.t = t /\ last'.woken
                   /\ IsErr(last'.res, "OwnerDead") <=> EntryOf(waitq, t).ownerdead
                   /\ ~EntryOf(waitq, t).ownerdead => last'.res.ok]_vars

\* A wait on an abandoned mutex returned OwnerDead and its owner holds the mutex.
C16_Witness ==
    /\ last.op \in {"wait_all", "wait_any"}
    /\ ~last.woken
    /\ IsErr(last.res, "OwnerDead")
    /\ Len(last.call.sources) = 1
    /\ IsLive(last.call.sources[1], "mutex")
    /\ objs[ObjOf(last.call.sources[1])].owner = last.call.owner[1]
    /\ objs[ObjOf(last.call.sources[1])].count = 1
    /\ ~objs[ObjOf(last.call.sources[1])].ownerdead

\* C17 as stated: directly after new_event(signaled, manual), status() reports
\* signaled() = signaled and manual_reset() = manual, for all four combinations.
C17_AsStated ==
    (last.op = "new_event" /\ last.res.ok) =>
        LET st == Event_status(KState, last.res.val).res
        IN  /\ st.ok
            /\ EventStatus_signaled(st.val) = last.args.signaled
            /\ EventStatus_manual_reset(st.val) = last.args.manual

\* C18: in every reachable state, signal(), reset() and pulse() on an event
\* each return the signaled state the event has before the call (the one
\* status() reports); reset() on an event that is not signaled returns false
\* and changes nothing.
C18_PreviousState ==
    \A h \in Held("Event") :
        IsLive(h, "event") =>
          LET was == objs[ObjOf(h)].signaled
          IN  /\ Event_status(KState, h).res.ok
              /\ EventStatus_signaled(Event_status(KState, h).res.val) = was
              /\ Event_signal(KState, h).res = OkBool(was)
              /\ Event_reset(KState, h).res = OkBool(was)
              /\ Event_pulse(KState, h).res = OkBool(was)
              /\ ~was => Event_reset(KState, h).k = KState

\* reset() was called on an event that was not signaled: it returned false.
C18_Witness ==
    /\ last.op = "reset"
    /\ last.res = OkBool(FALSE)
    /\ IsLive(last.h, "event")
    /\ ~objs[ObjOf(last.h)].signaled

\* The callers asleep in a wait that has object o among its sources or as its alert.
SleepersOn(o) ==
    {n \in 1 .. Len(waitq) :
        waitq[n].signaled = -1 /\ (o \in Range(waitq[n].oids) \/ waitq[n].alert = o)}

\* Object o is all that the sleeping entry w still waits for.
SatisfiedBy(w, o) ==
    \/ ~w.all
    \/ w.alert = o
    \/ \A x \in Range(w.oids) \ {o} : is_signaled(objs[x], w.owner)

\* C19: on an auto-reset event with two or more callers asleep in waits that
\* the event satisfies, one signal() satisfies exactly one of them, the others
\* stay asleep as they were, and the event is not signaled afterwards, in the
\* driver's state and in what status() returns.
C19_SignalWakesOne ==
    \A h \in Held("Event") :
        (IsLive(h, "event") /\ ~objs[ObjOf(h)].manual) =>
          LET o == ObjOf(h)
              S == SleepersOn(o)
              r == Event_signal(KState, h)
          IN  (Cardinality(S) >= 2 /\ \A n \in S : SatisfiedBy(waitq[n], o)) =>
                /\ r.res = OkBool(FALSE)
                /\ Cardinality(WokenBy(r)) = 1
                /\ WokenBy(r) \subseteq S
                /\ \A n \in S \ WokenBy(r) : r.k.waitq[n] = waitq[n]
                /\ ~r.k.objs[o].signaled
                /\ Event_status(r.k, h).res.ok
                /\ ~EventStatus_signaled(Event_status(r.k, h).res.val)

\* signal() on an auto-reset event with two sleeping callers woke one of them;
\* the other is still asleep and the event is not signaled.
C19_Witness ==
    /\ last.op = "signal"
    /\ last.res.ok
    /\ IsLive(last.h, "event")
    /\ ~objs[ObjOf(last.h)].manual
    /\ ~objs[ObjOf(last.h)].signaled
    /\ Len(waitq) = 2
    /\ \A n \in 1 .. 2 : ObjOf(last.h) \in Range(waitq[n].oids)
    /\ Cardinality({n \in 1 .. 2 : waitq[n].signaled = -1}) = 1

\* C20: pulse() is one request to the driver, and the requests of all callers
\* take effect one after the other: whatever the callers and sleepers do in
\* between, status() returns the event's flag of the state it runs in, the only
\* step that leaves an event signaled that was not signaled before is a
\* signal() on it, and after a pulse() the event is not signaled, also when the
\* pulse has satisfied sleeping waiters.  So no status() returns signaled = true
\* for an event that is not signaled and is only pulsed.
C20_PulseNeverSeen ==
    /\ [](\A h \in Held("Event") :
            IsLive(h, "event") =>
                /\ Event_status(KState, h).res.ok
                /\ EventStatus_signaled(Event_status(KState, h).res.val) = objs[ObjOf(h)].signaled
                /\ ~objs[ObjOf(h)].signaled =>
                      LET r == Event_pulse(KState, h)
                      IN  /\ r.res = OkBool(FALSE)
                          /\ r.k.objs[ObjOf(h)] = objs[ObjOf(h)]
                          /\ ~EventStatus_signaled(Event_status(r.k, h).res.val))
    /\ [][\A o \in Oids :
            (objs[o].type = "event" /\ ~objs[o].signaled /\ objs'[o].type = "event" /\ objs'[o].signaled) =>
                last'.op = "signal" /\ ObjOf(last'.h) = o]_vars
    /\ [][(last'.op = "pulse" /\ last'.res.ok) => ~objs'[ObjOf(last'.h)].signaled]_vars

\* pulse() on an event that was not signaled has satisfied a sleeping caller;
\* the event is not signaled.
C20_Witness ==
    /\ last.op = "pulse"
    /\ last.res = OkBool(FALSE)
    /\ IsLive(last.h, "event")
    /\ ~objs[ObjOf(last.h)].signaled
    /\ \E n \in 1 .. Len(waitq) : waitq[n].signaled # -1 /\ TookObj(waitq[n], ObjOf(last.h))

\* Kernel state k with nobody asleep.
NoWaiters(k) == [k EXCEPT !.waitq = <<>>]

\* The objects as the call recorded by the step leaves them when it wakes nobody.
OpAlone ==
    LET k == NoWaiters(KState)
    IN  CASE last'.op = "release" -> Semaphore_release(k, last'.h, last'.arg).k.objs
          [] last'.op = "unlock" -> Mutex_unlock(k, last'.h, last'.arg).k.objs
          [] last'.op = "kill" -> Mutex_kill(k, last'.h, last'.arg).k.objs
          [] last'.op = "signal" -> Event_signal(k, last'.h).k.objs
          [] last'.op = "reset" -> Event_reset(k, last'.h).k.objs
          [] last'.op = "pulse" -> Event_pulse(k, last'.h).k.objs
          [] OTHER -> objs

\* The wait result r says that the sources were acquired.
TookSources(r) == (r.ok /\ ~r.val.alerted) \/ IsErr(r, "OwnerDead")

\* One step seen by the caller t that sleeps in a wait_all: its sources are
\* taken all together in the step that satisfies it, and not touched by it in
\* any other step.
AllOrNothingStep(t) ==
    LET w == EntryOf(waitq, t)
        S == Range(w.oids)
    IN  IF t \notin Waiting(waitq') THEN objs' = objs /\ last'.t = t /\ last'.woken
        ELSE LET w2 == EntryOf(waitq', t)
             IN  IF w.signaled # -1 \/ Immediate THEN w2 = w
                 ELSE IF w2.signaled = -1 \/ (w2.signaled = Len(w.oids) /\ w.alert # 0)
                 THEN \A x \in S : objs'[x] = OpAlone[x]
                 ELSE /\ w2.signaled = 0
                      /\ \A x \in S : /\ is_signaled(OpAlone[x], w.owner)
                                      /\ objs'[x] = Acquire(OpAlone[x], w.owner)

\* C21: wait_all is all-or-nothing.  A call that returns at once has taken
\* every source of its set (each was available) when it returns Ok without
\* alert or Err(OwnerDead), and has changed none of them when it sleeps or
\* returns an alert or any other error; a sleeping call takes all its sources
\* in the one step that satisfies it and changes none of them in any other
\* step, among them the one in which it ends by timeout or alert.
C21_AllOrNothing ==
    /\ [](\A call \in WaitCalls("wait_all", {1}, {None, Some(1)}, OwnerInputs, {0}, AlertInputs) :
            LET r == wait_all(KState, call)
                S == SourceObjs(call)
            IN  IF TookSources(r.res)
                THEN \A x \in S : /\ is_signaled(objs[x], unwrap_or_default(call.owner))
                                  /\ r.k.objs[x] = Acquire(objs[x], unwrap_or_default(call.owner))
                ELSE \A x \in S : r.k.objs[x] = objs[x])
    /\ [][\A t \in Waiting(waitq) : EntryOf(waitq, t).all => AllOrNothingStep(t)]_vars
    /\ [][(last'.op = "wait_all" /\ last'.woken /\ ~TookSources(last'.res)) => objs' = objs]_vars

\* A caller sleeps in a wait_all on two sources of which one is available: it holds neither.
C21_Witness ==
    /\ Len(waitq) = 1
    /\ waitq[1].all
    /\ waitq[1].signaled = -1
    /\ Len(waitq[1].oids) = 2
    /\ is_signaled(objs[waitq[1].oids[1]], waitq[1].owner)
    /\ ~is_signaled(objs[waitq[1].oids[2]], waitq[1].owner)
    /\ objs[waitq[1].oids[1]].type \in {"sem", "mutex"}

\* Object state a is what state b becomes when a waiter of owner o acquires it.
AcquiredBy(b, a, o) ==
    CASE b.type = "mutex" ->
            /\ b.owner \in {0, o}
            /\ a.owner = o
            /\ a.count = IF b.owner = o THEN b.count + 1 ELSE 1
      [] b.type = "sem" -> b.count >= 1 /\ a = [b EXCEPT !.count = b.count - 1]
      [] b.type = "event" -> b.signaled /\ a = [b EXCEPT !.signaled = b.manual]
      [] OTHER -> FALSE

\* C22: when wait_all returns Ok with alerted = false for the sources S and
\* owner o, it has acquired every source: every mutex of S is owned by o, one
\* deeper than before if o held it and at depth 1 otherwise, every semaphore of
\* S has its count lowered by exactly 1, every manual-reset event of S is still
\* signaled and every auto-reset event of S is cleared.  For a call that slept
\* this is the effect of the step that satisfied it.
C22_WaitAllEffect ==
    /\ [](\A call \in WaitCalls("wait_all", {1}, {None, Some(1)}, OwnerInputs, {0}, AlertInputs) :
            LET r == wait_all(KState, call)
            IN  (r.res.ok /\ ~r.res.val.alerted) =>
                  /\ Len(call.sources) > 0
                  /\ \A x \in SourceObjs(call) :
                        AcquiredBy(objs[x], r.k.objs[x], unwrap_or_default(call.owner)))
    /\ [][\A t \in Waiting(waitq) :
            LET w == EntryOf(waitq, t)
            IN  (w.all /\ w.signaled # -1 /\ t \notin Waiting(waitq')) =>
                  ((last'.res.ok /\ ~last'.res.val.alerted) <=>
                      (w.signaled = 0 /\ Len(w.oids) > 0 /\ ~w.ownerdead))]_vars
    /\ [][\A t \in Waiting(waitq) \cap Waiting(waitq') :
            LET w == EntryOf(waitq, t)
                w2 == EntryOf(waitq', t)
            IN  (w.all /\ w.signaled = -1 /\ w2.signaled = 0 /\ Len(w.oids) > 0) =>
                  \A x \in Range(w.oids) : AcquiredBy(OpAlone[x], objs'[x], w.owner)]_vars

\* A wait_all over a mutex and an auto-reset event returned Ok without alert:
\* the mutex is owned by the caller's owner and the event is cleared.
C22_Witness ==
    /\ last.op = "wait_all"
    /\ ~last.woken
    /\ last.res.ok
    /\ ~last.res.val.alerted
    /\ Len(last.call.sources) = 2
    /\ \E i, j \in 1 .. 2 :
          /\ last.call.sources[i].kind = "Mutex"
          /\ objs[ObjOf(last.call.sources[i])].owner = last.call.owner[1]
          /\ last.call.sources[j].kind = "Event"
          /\ ~objs[ObjOf(last.call.sources[j])].manual
          /\ ~objs[ObjOf(last.call.sources[j])].signaled

\* Between the object states before and after, the waiter of owner o acquired
\* the object at position i of oids and no other object of oids changed.
TookOnly(before, after, oids, i, o) ==
    /\ i \in 1 .. Len(oids)
    /\ AcquiredBy(before[oids[i]], after[oids[i]], o)
    /\ \A j \in 1 .. Len(oids) : oids[j] # oids[i] => after[oids[j]] = before[oids[j]]

\* C23: when wait_any returns Ok with alerted = false, exactly one source of
\* the set was acquired (for a call that returns at once, the first available
\* one in the order submitted) and every other source of the set, available
\* or not, is left as it was.  For a call that slept this is the effect of
\* the step that satisfied it.
C23_WaitAnyTakesOne ==
    /\ [](\A call \in WaitCalls("wait_any", {1}, {None, Some(1)}, OwnerInputs, {0}, AlertInputs) :
            LET r == wait_any(KState, call)
                o == unwrap_or_default(call.owner)
                oids == [i \in 1 .. Len(call.sources) |-> ObjOf(call.sources[i])]
                free == {i \in 1 .. Len(oids) : is_signaled(objs[oids[i]], o)}
            IN  (r.res.ok /\ ~r.res.val.alerted) =>
                  /\ free # {}
                  /\ TookOnly(objs, r.k.objs, oids, Min(free), o))
    /\ [][\A t \in Waiting(waitq) :
            LET w == EntryOf(waitq, t)
            IN  ((~w.all) /\ w.signaled # -1 /\ t \notin Waiting(waitq')) =>
                  /\ objs' = objs
                  /\ (last'.res.ok /\ ~last'.res.val.alerted) <=>
                        (w.signaled < Len(w.oids) /\ ~w.ownerdead)]_vars
    /\ [][\A t \in Waiting(waitq) \cap Waiting(waitq') :
            LET w == EntryOf(waitq, t)
                w2 == EntryOf(waitq', t)
            IN  ((~w.all) /\ w.signaled = -1 /\ w2.signaled # -1 /\ w2.signaled < Len(w.oids)) =>
                  TookOnly(OpAlone, objs', w.oids, w2.signaled + 1, w.owner)]_vars

\* A wait_any over a mutex and a semaphore, both available, returned Ok: the
\* caller owns the mutex and the semaphore still has its unit.
C23_Witness ==
    /\ last.op = "wait_any"
    /\ ~last.woken
    /\ last.res.ok
    /\ ~last.res.val.alerted
    /\ Len(last.call.sources) = 2
    /\ \E i, j \in 1 .. 2 :
          /\ last.call.sources[i].kind = "Mutex"
          /\ objs[ObjOf(last.call.sources[i])].owner = last.call.owner[1]
          /\ objs[ObjOf(last.call.sources[i])].count = 1
          /\ last.call.sources[j].kind = "Semaphore"
          /\ objs[ObjOf(last.call.sources[j])].count = 1

\* C24 as stated: when wait_any returns Ok, index is the 0-based position of
\* the satisfying source in the submitted list (objects[index] is the source
\* that was acquired), and it is the number of sources when the alert ended
\* the wait.
C24_AsStated ==
    \A call \in WaitCalls("wait_any", {1}, {None, Some(1)}, OwnerInputs, {0}, AlertInputs) :
        LET r == wait_any(KState, call)
            o == unwrap_or_default(call.owner)
            oids == [i \in 1 .. Len(call.sources) |-> ObjOf(call.sources[i])]
            free == {i \in 1 .. Len(oids) : is_signaled(objs[oids[i]], o)}
        IN  r.res.ok =>
              IF r.res.val.alerted THEN r.res.val.index = Len(call.sources)
              ELSE /\ r.res.val.index = Min(free) - 1
                   /\ r.res.val.objects[r.res.val.index + 1] = call.sources[Min(free)]

\* Every source of the call is available to the call's owner.
AllAvailable(call) ==
    \A x \in SourceObjs(call) : is_signaled(objs[x], unwrap_or_default(call.owner))

\* C25 as stated: when wait_all returns Ok, alerted is false when the wait
\* ended because all sources were acquired, for every source set, the empty
\* one included, and it is true only when an alert was given and ended the wait.
C25_AsStated ==
    \A call \in WaitCalls("wait_all", {1}, {None, Some(1)}, OwnerInputs, {0}, AlertInputs) :
        LET r == wait_all(KState, call)
        IN  r.res.ok =>
              /\ AllAvailable(call) => ~r.res.val.alerted
              /\ r.res.val.alerted =>
                    /\ call.alert # None
                    /\ objs[ObjOf(call.alert[1])].signaled
                    /\ \A x \in SourceObjs(call) : r.k.objs[x] = objs[x]

\* Thread t sleeps in a wait and its alert has been signaled for it.
AlertWoken(t) ==
    /\ t \in Waiting(waitq)
    /\ LET w == EntryOf(waitq, t) IN w.alert # 0 /\ w.signaled = Len(w.oids)

\* Thread t sleeps, unsatisfied, in a wait whose alert is the event of handle h.
SleepsWithAlert(t, h) ==
    /\ t \in Waiting(waitq)
    /\ LET w == EntryOf(waitq, t) IN w.signaled = -1 /\ w.alert # 0 /\ w.alert = ObjOf(h)

Valid(call) ==
    check_sources(call.sources, call.owner,
                  IF call.alert = None THEN 0 ELSE call.alert[1].id, 1) = ""

\* The sources of the call satisfy it: all of them for wait_all, one for wait_any.
Satisfiable(call) ==
    /\ Len(call.sources) > 0
    /\ IF call.op = "wait_all" THEN AllAvailable(call)
       ELSE \E x \in SourceObjs(call) : is_signaled(objs[x], unwrap_or_default(call.owner))

\* The requests of both kinds that name an alert whose event is signaled.
AlertedCalls ==
    {call \in WaitCalls("wait_all", {1}, {None, Some(1)}, OwnerInputs, {0}, AlertInputs)
          \cup WaitCalls("wait_any", {1}, {None, Some(1)}, OwnerInputs, {0}, AlertInputs) :
        /\ call.alert # None
        /\ objs[ObjOf(call.alert[1])].signaled
        /\ Valid(call)}

\* C27 as stated: a wait resolved while its alert is signaled reports the
\* alert (Ok with alerted = true), also when its sources are available or its
\* timeout has passed.
C27_AsStated ==
    \A call \in AlertedCalls :
        LET r == Run(call) IN r.res.ok /\ r.res.val.alerted

\* C27: a wait resolved while its alert is signaled never sleeps and never
\* times out.  When its sources satisfy it, the sources win: they are acquired,
\* the result is Ok with alerted = false (or Err(OwnerDead)) and the alert event
\* is left as it was.  When they do not, the result is Ok with alerted = true
\* and no source is changed, whether or not the call has a timeout (a wait_all
\* on the empty set returns Ok at once and takes nothing, the alert included).
\* A sleeping wait keeps the first outcome it gets: once it is satisfied or
\* alerted it does not change and does not return Timeout, and it returns
\* Timeout only when neither has happened.
C27_Precedence ==
    /\ [](\A call \in AlertedCalls :
            LET r == Run(call)
                a == ObjOf(call.alert[1])
            IN  IF Satisfiable(call)
                THEN TookSources(r.res) /\ r.k.objs[a] = objs[a]
                ELSE IF call.op = "wait_all" /\ Len(call.sources) = 0
                THEN r.res.ok /\ r.k.objs = objs
                ELSE /\ r.res.ok /\ r.res.val.alerted
                     /\ r.k.objs[a] = Acquire(objs[a], 0)
                     /\ \A x \in SourceObjs(call) : r.k.objs[x] = objs[x])
    /\ [][\A t \in Waiting(waitq) :
            LET w == EntryOf(waitq, t)
            IN  IF t \in Waiting(waitq')
                THEN w.signaled # -1 => EntryOf(waitq', t) = w
                ELSE /\ last'.t = t /\ last'.woken
                     /\ IsErr(last'.res, "Timeout") <=> w.signaled = -1
                     /\ w.signaled = -1 => w.finite]_vars

\* A wait whose alert was signaled and whose semaphore was available returned
\* Ok with alerted = false: it took the semaphore and the alert is still signaled.
C27_Witness ==
    /\ last.op \in {"wait_all", "wait_any"}
    /\ ~last.woken
    /\ last.call.alert # None
    /\ objs[ObjOf(last.call.alert[1])].signaled
    /\ ~objs[ObjOf(last.call.alert[1])].manual
    /\ last.res.ok
    /\ ~last.res.val.alerted
    /\ Len(last.call.sources) = 1
    /\ last.call.sources[1].kind = "Semaphore"
    /\ objs[ObjOf(last.call.sources[1])].count = 0


(***************************************************************************)
(* The crate root (lib.rs): every operation defined there translates a     *)
(* failed ioctl with the macro errno_match!.                               *)
(***************************************************************************)
\* The largest error number the kernel hands out (EHWPOISON).
MaxErrno == 133

\* unimplemented!(): the calling thread panics, nothing is returned.
Panic(code) == [kind |-> "panic", code |-> code]

errno_match(errno) ==
    IF errno = EINVAL THEN E("InvalidValue")
    ELSE IF errno = EPERM THEN E("PermissionDenied")
    ELSE IF errno = EOVERFLOW THEN E("SemaphoreOverflow")
    ELSE IF errno = EINTR THEN E("Interrupt")
    ELSE IF errno = EOWNERDEAD THEN E("OwnerDead")
    ELSE IF errno = ETIMEDOUT THEN E("Timeout")
    ELSE Panic(errno)

\* The failure codes the error taxonomy names, and all the others.
Documented == {EPERM, EINTR, EIO, EBADF, EINVAL, EOVERFLOW, ETIMEDOUT, EOWNERDEAD}
Undocumented == (1 .. MaxErrno) \ Documented

\* The error matches of semaphore.rs, mutex.rs, event.rs and wait.rs return
\* Unknown(code) for every code outside the taxonomy.
ModuleMatchesKeepCode ==
    \A code \in Undocumented :
        /\ release_errno(code) = Unknown(code)
        /\ close_errno(code, "AlreadyClosed") = Unknown(code)
        /\ close_errno(code, "DoubleClose") = Unknown(code)
        /\ create_errno(code) = Unknown(code)
        /\ mutex_errno(code) = Unknown(code)
        /\ event_errno(code) = Unknown(code)
        /\ wait_errno(code) = Unknown(code)

\* The failure codes the device returns in this state to a call on a handle
\* the program holds.
DeviceCodes ==
    {Kernel_sem_release(KState, h.id, 0).errno : h \in Held("Semaphore")}
        \cup {Kernel_sem_read(KState, h.id, SemaphoreStatus_default).errno : h \in Held("Semaphore")}
        \cup {Kernel_mutex_unlock(KState, h.id, MutexStatus_new(1)).errno : h \in Held("Mutex")}
        \cup {Kernel_mutex_read(KState, h.id, MutexStatus_default).errno : h \in Held("Mutex")}
        \cup {Kernel_event_set(KState, h.id, 0, FALSE).errno : h \in Held("Event")}
        \cup {Kernel_event_read(KState, h.id, EventStatus_default).errno : h \in Held("Event")}

\* C28 as stated: every operation that receives a failure code from the device
\* which is not one of the documented codes returns Err(Unknown(code)) with
\* that raw code; none panics, returns Ok or reports a known error kind.
C28_AsStated ==
    /\ ModuleMatchesKeepCode
    /\ \A code \in DeviceCodes \cap Undocumented : errno_match(code) = Unknown(code)

\* The wait_any requests with a finite timeout, a non-zero owner and no alert
\* whose source set contains a handle whose delete() succeeded.
WaitsOnDeleted ==
    {call \in WaitCalls("wait_any", {1}, {Some(1)}, {Some(o) : o \in 1 .. MaxOwner}, {0}, {None}) :
        \E i \in 1 .. Len(call.sources) : call.sources[i] \in deleted}

\* No descriptor number of a deleted handle of the request is in use again.
NotReused(call) ==
    \A i \in 1 .. Len(call.sources) : call.sources[i] \in deleted => ObjOf(call.sources[i]) = 0

\* C29 as stated: after delete() succeeded on an object, a wait_any through the
\* same connection whose source set contains the deleted handle, with a finite
\* timeout and a non-zero owner, fails with InvalidValue; it never returns Ok,
\* sleeps towards a timeout or fails otherwise.
C29_AsStated ==
    \A call \in WaitsOnDeleted : IsErr(wait_any(KState, call).res, "InvalidValue")

\* The same while the descriptor number has not been handed out again.
C29_UntilReuse ==
    \A call \in WaitsOnDeleted :
        NotReused(call) => IsErr(wait_any(KState, call).res, "InvalidValue")

\* Call r failed and left the kernel's state as it was.
Refused(r) == (~r.res.ok) /\ r.k = KState

\* The waits with a finite timeout, a non-zero owner and no alert that name h.
WaitsOn(h) ==
    {call \in Requests({1}, {Some(o) : o \in 1 .. MaxOwner}) :
        /\ call.timeout # None
        /\ call.alert = None
        /\ \E i \in 1 .. Len(call.sources) : call.sources[i] = h}

\* Every operation on handle h fails without reaching an object.
AllRefused(h) ==
    /\ h.kind = "Semaphore" =>
          /\ \A amount \in U32 : Refused(Semaphore_release(KState, h, amount))
          /\ Refused(Semaphore_read(KState, h))
          /\ Refused(Semaphore_delete(KState, h))
    /\ h.kind = "Mutex" =>
          /\ \A owner \in 0 .. MaxOwner :
                Refused(Mutex_unlock(KState, h, owner)) /\ Refused(Mutex_kill(KState, h, owner))
          /\ Refused(Mutex_read(KState, h))
          /\ Refused(Mutex_delete(KState, h))
    /\ h.kind = "Event" =>
          /\ Refused(Event_signal(KState, h))
          /\ Refused(Event_reset(KState, h))
          /\ Refused(Event_pulse(KState, h))
          /\ Refused(Event_status(KState, h))
          /\ Refused(Event_delete(KState, h))
    /\ \A call \in WaitsOn(h) : Refused(Run(call))

\* C30 as stated: a retained copy of a deleted handle never aliases another
\* object: whatever was created after delete(h), no creation hands out the
\* value of h again, and every operation on the copy fails and neither
\* reads, modifies nor waits on the object that got the same handle number.
C30_AsStated ==
    /\ [](\A h \in deleted : AllRefused(h))
    /\ [][(last'.op \in {"new_semaphore", "new_mutex", "new_event"} /\ last'.res.ok) =>
              last'.res.val \notin deleted]_vars

\* The same while the handle number of h has not been handed out again.
C30_UntilReuse == \A h \in deleted : ObjOf(h) = 0 => AllRefused(h)

\* A raw failure code of the device and the Error an operation made of it.
Translated(errno, r) == [code |-> errno, err |-> IF errno = 0 THEN E("") ELSE r.res.err]

\* The code the wait ioctl returns at once to a wait on handle h alone.
WaitOn(op, h) == Call(op, NextThread, 1, <<h>>, Some(1), Some(1), 0, None)
wait_code(op, h) ==
    Kernel_wait(KState, 1, WaitArgs_new(1, <<h.id>>, 1, 0, 0, 1, 0), op = "wait_all", WaitOn(op, h)).errno

\* What every operation on a handle the program holds makes, in this state,
\* of the code the device returns to it.
Translations ==
    {Translated(Kernel_sem_release(KState, h.id, amount).errno, Semaphore_release(KState, h, amount)) :
        h \in Held("Semaphore"), amount \in U32}
    \cup {Translated(Kernel_sem_read(KState, h.id, SemaphoreStatus_default).errno, Semaphore_read(KState, h)) :
        h \in Held("Semaphore")}
    \cup {Translated(Kernel_close(KState, h.id).errno, Semaphore_delete(KState, h)) : h \in Held("Semaphore")}
    \cup {Translated(Kernel_mutex_unlock(KState, h.id, MutexStatus_new(owner)).errno,
                     Mutex_unlock(KState, h, owner)) : h \in Held("Mutex"), owner \in 0 .. MaxOwner}
    \cup {Translated(Kernel_mutex_kill(KState, h.id, owner).errno, Mutex_kill(KState, h, owner)) :
        h \in Held("Mutex"), owner \in 0 .. MaxOwner}
    \cup {Translated(Kernel_mutex_read(KState, h.id, MutexStatus_default).errno, Mutex_read(KState, h)) :
        h \in Held("Mutex")}
    \cup {Translated(Kernel_close(KState, h.id).errno, Mutex_delete(KState, h)) : h \in Held("Mutex")}
    \cup {Translated(Kernel_event_set(KState, h.id, 0, FALSE).errno, Event_signal(KState, h)) : h \in Held("Event")}
    \cup {Translated(Kernel_event_reset(KState, h.id, 0).errno, Event_reset(KState, h)) : h \in Held("Event")}
    \cup {Translated(Kernel_event_set(KState, h.id, 0, TRUE).errno, Event_pulse(KState, h)) : h \in Held("Event")}
    \cup {Translated(Kernel_event_read(KState, h.id, EventStatus_default).errno, Event_status(KState, h)) :
        h \in Held("Event")}
    \cup {Translated(Kernel_close(KState, h.id).errno, Event_delete(KState, h)) : h \in Held("Event")}
    \cup {Translated(wait_code(op, h), Run(WaitOn(op, h))) : op \in {"wait_all", "wait_any"}, h \in issued}

\* C31 as stated: the translation of a raw failure code into an Error is a
\* function of the code alone: the same code yields the same Error in every
\* operation; the invalid-argument code always yields InvalidValue and the
\* bad-handle code always the already-closed kind.
C31_AsStated ==
    /\ \A p, q \in Translations : p.code = q.code => p.err = q.err
    /\ \A p \in Translations :
          /\ p.code = EINVAL => p.err = E("InvalidValue")
          /\ p.code = EBADF => p.err = E("AlreadyClosed")

\* Sequence s holds no value twice.
NoRepeats(s) == \A i, j \in 1 .. Len(s) : i # j => s[i] # s[j]

\* C32: the objects vector of a successful wait_all / wait_any holds each
\* submitted source exactly once and nothing else, in the order of the handle
\* list given to the kernel: objects[i] is the handle whose number is entry i
\* of that list, which the kernel resolved to the i-th object it waits on.
C32_ObjectsAsSubmitted ==
    /\ [](\A call \in Requests({1}, OwnerInputs) :
            LET r == Run(call)
            IN  /\ r.res.ok =>
                      /\ r.res.val.objects = call.sources
                      /\ NoRepeats(r.res.val.objects)
                /\ r.res = Pending =>
                      LET w == EntryOf(r.k.waitq, call.t)
                      IN  /\ w.sources = call.sources
                          /\ Len(w.oids) = Len(call.sources)
                          /\ \A i \in 1 .. Len(w.oids) : w.oids[i] = ObjOf(call.sources[i]))
    /\ [][\A t \in Waiting(waitq) :
            LET w == EntryOf(waitq, t)
            IN  (t \notin Waiting(waitq') /\ last'.res.ok) =>
                  /\ last'.res.val.objects = w.sources
                  /\ NoRepeats(last'.res.val.objects)
                  /\ Len(w.oids) = Len(w.sources)
                  /\ \A i \in 1 .. Len(w.oids) : w.oids[i] = ObjOf(last'.res.val.objects[i])]_vars

\* A wait_any over two sources slept, was satisfied and returned Ok with both
\* sources in its objects vector.
C32_Witness ==
    /\ last.op = "wait_any"
    /\ last.woken
    /\ last.res.ok
    /\ Len(last.res.val.objects) = 2
    /\ last.res.val.objects[1] # last.res.val.objects[2]

\* C33: the request built for a wait carries the caller's parameters
\* unchanged: alert is the alert event's handle number and 0 exactly when no
\* alert was given, owner is the supplied owner token and 0 when none was
\* given, flags are the supplied flag bits, count is the number of sources
\* (one id per source), index and pad are 0; and these are the values the
\* kernel queues the caller with.
C33_WireRequest ==
    \A op \in {"wait_all", "wait_any"}, sources \in SourceOrders, alert \in AlertInputs,
       owner \in OwnerInputs :
        /\ (alert # None) => alert[1].id # 0
        /\ \A flags \in FlagInputs :
              wait_args(Call(op, NextThread, 1, sources, Some(1), owner, flags, alert)) =
                  [timeout |-> 1,
                   objs |-> [i \in 1 .. Len(sources) |-> sources[i].id],
                   count |-> Len(sources),
                   index |-> 0,
                   flags |-> flags,
                   owner |-> IF owner = None THEN 0 ELSE owner[1],
                   alert |-> IF alert = None THEN 0 ELSE alert[1].id,
                   pad |-> 0]
        /\ LET call == Call(op, NextThread, 1, sources, Some(1), owner, 0, alert)
               k == Run(call).k
           IN  call.t \in Waiting(k.waitq) =>
                 LET w == EntryOf(k.waitq, call.t)
                 IN  /\ w.owner = (IF owner = None THEN 0 ELSE owner[1])
                     /\ w.alert = (IF alert = None THEN 0 ELSE ObjOf(alert[1]))

\* A wait with an alert and the owner 2 was issued and sleeps: the kernel's
\* entry carries the owner and the alert's object.
C33_Witness ==
    /\ last.op \in {"wait_all", "wait_any"}
    /\ ~last.woken
    /\ last.res = Pending
    /\ last.call.alert # None
    /\ last.call.owner = Some(2)
    /\ LET w == EntryOf(waitq, last.call.t)
       IN  w.owner = 2 /\ w.alert = ObjOf(last.call.alert[1])

\* The same source set met in the opposite iteration order.
Backwards(s) == [i \in 1 .. Len(s) |-> s[Len(s) + 1 - i]]

\* What the validation loop answers for a request ("" when it passes).
Validation(call, sources) ==
    check_sources(sources, call.owner, IF call.alert = None THEN 0 ELSE call.alert[1].id, 1)

\* C34 as stated: validation of a wait request is deterministic and ordered:
\* the duplicate-event check on all Events comes before the mutex-owner
\* check, so a request that names a member Event as alert and holds a Mutex
\* with a missing or zero owner always fails with DuplicateEvent, and the
\* error does not depend on the order in which the source set is iterated.
C34_AsStated ==
    \A call \in Requests({1}, OwnerInputs) :
        /\ (AlertIsMember(call) /\ MutexWithoutOwner(call)) =>
              IsErr(Run(call).res, "DuplicateEvent")
        /\ Validation(call, call.sources) = Validation(call, Backwards(call.sources))

\* The requests with the owner 1 that pass the wrapper's validation.
Accepted ==
    {call \in WaitCalls("wait_all", {1}, {Some(1)}, {Some(1)}, {0}, AlertInputs)
              \cup WaitCalls("wait_any", {1}, {Some(1)}, {Some(1)}, {0}, AlertInputs) :
        Validation(call, call.sources) = ""}

\* The id list of the request has no value twice and not the alert's value.
CleanList(call) ==
    LET args == wait_args(call)
    IN  /\ NoRepeats(args.objs)
        /\ args.alert # 0 => \A i \in 1 .. args.count : args.objs[i] # args.alert

\* Handle h names an open object of its own kind.
Names(h) ==
    IsLive(h, IF h.kind = "Semaphore" THEN "sem" ELSE IF h.kind = "Mutex" THEN "mutex" ELSE "event")

\* Every handle of the request, source or alert, names an object of its kind.
AllLive(call) ==
    /\ \A i \in 1 .. Len(call.sources) : Names(call.sources[i])
    /\ call.alert # None => Names(call.alert[1])

\* C35 as stated: in every reachable state, also after objects were deleted
\* and new ones created, the handle list that wait_all / wait_any submit to
\* the kernel never holds the same raw handle value twice and never holds the
\* alert's handle value.
C35_AsStated == \A call \in Accepted : CleanList(call)

\* The same for requests whose handles all name an object of their kind.
C35_LiveHandles == \A call \in Accepted : AllLive(call) => CleanList(call)

\* The owners of the sleeping callers that this step satisfies with mutex o.
WakingOwners(o) == {EntryOf(waitq', t).owner : t \in WokenOn(o)}

\* The step is a wait of owner b that came back at once having taken o.
TakenAtOnce(o, b) ==
    /\ Immediate
    /\ Acquired(last'.res)
    /\ last'.call.owner = Some(b)
    /\ o \in SourceObjs(last'.call)

\* One step seen at mutex o: mid is o after the step's own operation and
\* before any sleeping caller is served.
ExclusionStep(o) ==
    LET m == objs[o]
        mid == OpAlone[o]
        n == objs'[o]
    IN  /\ \A b \in WakingOwners(o) : mid.owner \in {0, b} /\ n.owner = b
        /\ Cardinality(WakingOwners(o)) <= 1
        /\ \A b \in MutexOwners : TakenAtOnce(o, b) /\ n # m => m.owner \in {0, b} /\ n.owner = b
        /\ (n.owner # 0 /\ n.owner # m.owner) =>
              /\ mid.owner = 0
              /\ n.count = (IF Immediate THEN 1 ELSE Cardinality(WokenOn(o)))
              /\ TakenAtOnce(o, n.owner) \/ WakingOwners(o) = {n.owner}
        /\ (m.owner # 0 /\ mid.owner # m.owner) =>
              /\ last'.op \in {"unlock", "kill"}
              /\ last'.res.ok
              /\ last'.arg = m.owner

\* C36: mutual exclusion.  In every interleaving of callers waiting (wait_all
\* or wait_any) on one mutex with different non-zero owners the mutex passes
\* to an owner B only from a state in which it is unowned or owned by B: a
\* wait of B that returns at once took it in such a state, a sleeping wait of
\* B is satisfied only after the holder's unlock (or kill) has left it
\* unowned, one step satisfies callers of one owner only, and the holder
\* loses the mutex only by its own successful unlock or kill.
C36_MutualExclusion ==
    [][\A o \in Oids :
          (objs[o].type = "mutex" /\ objs'[o].type = "mutex") => ExclusionStep(o)]_vars

\* Two callers with different owners sleep on the mutex a third owner holds.
C36_Asleep ==
    /\ Len(waitq) = 2
    /\ waitq[1].signaled = -1
    /\ waitq[2].signaled = -1
    /\ waitq[1].owner # waitq[2].owner
    /\ \E o \in Oids :
          /\ objs[o].type = "mutex"
          /\ objs[o].owner \notin {0, waitq[1].owner, waitq[2].owner}
          /\ o \in Range(waitq[1].oids) \cap Range(waitq[2].oids)

\* The holder has unlocked: one of the two sleepers owns the mutex, the other
\* still sleeps.
C36_Witness ==
    /\ last.op = "unlock"
    /\ last.res.ok
    /\ Len(waitq) = 2
    /\ \E i, j \in 1 .. 2 :
          /\ waitq[i].signaled # -1
          /\ waitq[j].signaled = -1
          /\ waitq[i].owner # waitq[j].owner
          /\ objs[ObjOf(last.h)].owner = waitq[i].owner
          /\ ObjOf(last.h) \in Range(waitq[j].oids)

\* Thread t sleeps, not yet satisfied, in a wait_all without timeout and
\* without alert on a mutex that another owner holds.
BlockedForever(t) ==
    /\ t \in Waiting(waitq)
    /\ LET w == EntryOf(waitq, t)
       IN  w.all /\ ~w.finite /\ w.alert = 0 /\ w.signaled = -1 /\ HeldByOther(w)

\* Thread t sleeps in a wait without timeout that has been satisfied.
Granted(t) ==
    /\ t \in Waiting(waitq)
    /\ LET w == EntryOf(waitq, t) IN ~w.finite /\ w.signaled # -1

\* C37: a wait issued with timeout = None never ends with Timeout.  It is
\* queued without a deadline; a caller blocked in wait_all on a mutex held by
\* another owner (no alert, no timeout) stays blocked in every step that
\* leaves the mutex with that holder; the step in which the holder's last
\* unlock frees the mutex gives it to the blocked caller unless another
\* waiter takes it; and a caller that was given its sources returns, with Ok
\* (Err(OwnerDead) if the mutex had been abandoned by kill).
C37_NoTimeoutWithoutDeadline ==
    /\ [](\A op \in {"wait_all", "wait_any"}, sources \in SourceOrders, owner \in MutexOwners :
            CanWait(MaxThreads) =>
                LET r == Run(Call(op, NextThread, 1, sources, None, Some(owner), 0, None))
                IN  /\ ~IsErr(r.res, "Timeout")
                    /\ r.res = Pending => ~EntryOf(r.k.waitq, NextThread).finite)
    /\ [][\A t \in Waiting(waitq) :
            (~EntryOf(waitq, t).finite /\ t \notin Waiting(waitq')) =>
                /\ last'.t = t /\ last'.woken
                /\ ~IsErr(last'.res, "Timeout")
                /\ EntryOf(waitq, t).signaled # -1
                /\ IF EntryOf(waitq, t).ownerdead THEN IsErr(last'.res, "OwnerDead")
                   ELSE last'.res.ok /\ ~last'.res.val.alerted]_vars
    /\ [][\A t \in Threads :
            BlockedForever(t) =>
                LET w == EntryOf(waitq, t)
                    free == \A o \in Range(w.oids) : OpAlone[o].owner \in {0, w.owner}
                IN  IF ~free THEN BlockedForever(t)'
                    ELSE /\ last'.op \in {"unlock", "kill"} /\ last'.res.ok
                         /\ \/ Granted(t)' /\ \A o \in Range(w.oids) : objs'[o].owner = w.owner
                            \/ /\ BlockedForever(t)'
                               /\ \E o \in Range(w.oids) : WokenOn(o) # {}]_vars
    /\ \A t \in Threads : Granted(t) ~> ~Granted(t)

\* A wait_all without timeout slept on a mutex held by another owner and, after
\* the holder's unlock, returned Ok; its owner has the mutex.
C37_Witness ==
    /\ last.op = "wait_all"
    /\ last.woken
    /\ last.res.ok
    /\ Len(last.res.val.objects) = 1
    /\ objs[ObjOf(last.res.val.objects[1])].owner # 0
    /\ objs[ObjOf(last.res.val.objects[1])].count = 1
    /\ waitq = <<>>


(***************************************************************************)
(* error.rs: impl PartialEq for Error.                                     *)
(***************************************************************************)
\* The variants compared by name alone; IOError and DuplicateEvent have no arm.
Error_eq(a, b) ==
    CASE a.kind = "NotExist" /\ b.kind = "NotExist" -> TRUE
      [] a.kind = "InvalidValue" /\ b.kind = "InvalidValue" -> TRUE
      [] a.kind = "SemaphoreOverflow" /\ b.kind = "SemaphoreOverflow" -> TRUE
      [] a.kind = "PermissionDenied" /\ b.kind = "PermissionDenied" -> TRUE
      [] a.kind = "Timeout" /\ b.kind = "Timeout" -> TRUE
      [] a.kind = "OwnerDead" /\ b.kind = "OwnerDead" -> TRUE
      [] a.kind = "Interrupt" /\ b.kind = "Interrupt" -> TRUE
      [] a.kind = "Unknown" /\ b.kind = "Unknown" -> a.code = b.code
      [] OTHER -> FALSE

\* The Error values without an I/O error: the unit variants and Unknown(c)
\* for the codes the operations report as unknown.
UnitKinds ==
    {"NotExist", "InvalidValue", "SemaphoreOverflow", "PermissionDenied", "Timeout",
     "OwnerDead", "Interrupt", "DuplicateEvent"}
ErrorValues == {E(kind) : kind \in UnitKinds} \cup {Unknown(c) : c \in {EIO, EBADF, ENOTTY}}

\* The Error the last call returned, if it returned one of these.
Returned ==
    IF last.op # "init" /\ ~last.res.ok /\ last.res.err.kind \in UnitKinds \cup {"Unknown"}
    THEN {last.res.err} ELSE {}

\* C38 as stated: equality on Error is reflexive for every variant that
\* carries no I/O error (NotExist, InvalidValue, SemaphoreOverflow,
\* PermissionDenied, Timeout, OwnerDead, Interrupt, DuplicateEvent and
\* Unknown(c)), and two different variants, or Unknown with different codes,
\* compare unequal.
C38_AsStated ==
    /\ \A a \in Returned : Error_eq(a, a)
    /\ \A a, b \in ErrorValues : Error_eq(a, b) <=> (a = b)

\* The same for every variant but DuplicateEvent.
C38_ButDuplicateEvent ==
    /\ \A a \in Returned : a.kind # "DuplicateEvent" => Error_eq(a, a)
    /\ \A a, b \in ErrorValues \ {E("DuplicateEvent")} : Error_eq(a, b) <=> (a = b)
    /\ \A a \in ErrorValues : ~Error_eq(a, E("DuplicateEvent")) /\ ~Error_eq(E("DuplicateEvent"), a)

====
